---------------------------- MODULE Spec2Model ----------------------------
(***************************************************************************)
(* The inbound-email automation pipeline of mail.ai-server: the Gmail push *)
(* webhook (src/controllers/webhooks.js), the history listing and the      *)
(* watch setup (src/services/gmailPubSub.js), and the per-message          *)
(* automation dispatch that runs inside the webhook's loop; the            *)
(* notification job and the notification, calendar-task and template       *)
(* controllers; and the helpers that parse completions, decode MIME trees, *)
(* resolve meeting times, build replies and retry completions.             *)
(*                                                                         *)
(* Every delivery is one invocation of handleGmailWebhook.  The handler is *)
(* an async function: it runs without interruption up to each await, so an *)
(* action of the model is the code between two awaits.                     *)
(***************************************************************************)
EXTENDS Integers, Sequences, FiniteSets, TLC

\* ------------------------------------------------------------------ bounds
MaxHist == 2          \* messages the mailbox receives (history ids 1..MaxHist)
MaxDeliveries == 2    \* webhook deliveries, one after the other

\* ------------------------------------------------------- JavaScript values
\* user.gmailHistoryId is a nullable TEXT column; data.historyId is the JSON
\* number of the notification.  A value is tagged with its JavaScript type.
Null == [t |-> "null", v |-> 0]
Num(n) == [t |-> "number", v |-> n]
Str(n) == [t |-> "string", v |-> n]

\* String(x) of a number is its decimal string.
String(x) == IF x.t = "number" THEN Str(x.v) ELSE x

\* JavaScript truthiness: null and 0 are falsy, a decimal string is not empty.
Truthy(x) == x.t = "string" \/ (x.t = "number" /\ x.v # 0)

\* a || b
OrElse(a, b) == IF Truthy(a) THEN a ELSE b

\* ------------------------------------------------------------ the universe
Users == {"a@x.com"}
Addresses == Users \cup {"ghost@x.com"}
Handlers == {"h1"}       \* the invocations of the handler that may be in flight
HistoryIds == 1..MaxHist

\* The From header of a message, as the provider returns it.
NoFrom == [form |-> "absent", addr |-> ""]
Froms ==
    { [form |-> "angle", addr |-> "boss@x.com"],     \* Boss <boss@x.com>
      [form |-> "bare", addr |-> "other@y.com"] }    \* other@y.com


\* --------------------------------------------------------------- the state
VARIABLES
    cursor,        \* cursor[u]: the User row's gmailHistoryId (Null, or a string)
    bots,          \* bots[u]: the user's bots, in creation order
    mailbox,       \* the provider's mailbox: mailbox[i] is the From header of
                   \* the message added at history id i
    processed,     \* processed[i]: the checkpoint a delivery listed from when
                   \* message i was last dispatched (Null before the first)
    delivered,     \* the number of deliveries received so far
    pc,            \* pc[h]: where handler h is in handleGmailWebhook
    env,           \* env[h]: the envelope of h's delivery
    user,          \* user[h]: the User row the lookup resolved (NoUser: null)
    start,         \* start[h]: lastHistoryId, the checkpoint h lists from
    batch,         \* batch[h]: newMessages, as getNewMessages returned them
    idx,           \* idx[h]: the loop's position in batch[h]
    log,           \* log[h]: the steps of h's delivery, in order
    responses,     \* responses[h]: the HTTP status codes sent, in order
    escaped,       \* escaped[h]: an exception left the handler
    outcome,       \* outcome[h]: how the handler ended
    writes,        \* writes[h]: the cursor values h's delivery stored, in order
    made,          \* made[h]: the rows h's delivery has created in
                   \* ai_summarys, tasks and calendar_tasks, and the replies
                   \* it has sent
    last,          \* last[h]: what the dispatcher did with the message the
                   \* loop handled last
    notifications, \* the notifications table, in creation order; a row's id
                   \* is its position
    calendarTasks, \* the calendar_tasks table, in creation order
    tasks,         \* the tasks table, in creation order
    currentDate,   \* the clock read by the latest run of the notification job
    templets,      \* the templets table: the rows not deleted
    created,       \* the number of templets rows created so far
    answer,        \* what the latest controller call or job run answered
    call,          \* the helper called last, with its arguments
    ret,           \* what that call returned
    procs,         \* procs[p]: where the request or job run p is in its
                   \* handler, with the handler's locals
    client,        \* the credentials set on the module-level OAuth2 client
    db             \* the users, bots and ai_summarys tables

handlerVars == << pc, env, user, start, batch, idx, log, responses, escaped, outcome,
                  writes, made, last >>
storeVars == << processed >>

webhookVars == << cursor, bots, mailbox, delivered, handlerVars, storeVars >>
tableVars == << notifications, calendarTasks, tasks, currentDate, templets, created,
               answer >>
helperVars == << call, ret >>
requestVars == << procs, client, db >>

vars == << webhookVars, tableVars, helperVars, requestVars >>

\* ------------------------------------------------------- gmailPubSub.js
NoSender == "null"

\* getSenderEmail(message): null without payload or headers, null without a
\* From header, else the address between < and >, else the first bare
\* address of the header value.
getSenderEmail(message) ==
    IF ~message.payload THEN NoSender
    ELSE IF message.from.form = "absent" THEN NoSender
    ELSE message.from.addr

\* isFromSpecificEmail(message, targetEmail): the addresses of the model are
\* lower case, so toLowerCase() leaves both sides as they are.
isFromSpecificEmail(message, targetEmail) ==
    /\ getSenderEmail(message) # NoSender
    /\ getSenderEmail(message) = targetEmail

\* The number the provider reads a startHistoryId as, given as a number or
\* as its decimal string.
HistoryValue(x) == x.v

\* gmail.users.history.list({startHistoryId, historyTypes: ['messageAdded']}):
\* the ids of the messages added after startHistoryId, oldest first.
RECURSIVE AddedAfter(_, _, _)
AddedAfter(box, h, i) ==
    IF i > Len(box) THEN << >>
    ELSE IF i > h THEN << i >> \o AddedAfter(box, h, i + 1)
    ELSE AddedAfter(box, h, i + 1)

historyList(box, startHistoryId) == AddedAfter(box, HistoryValue(startHistoryId), 1)

\* The message getNewMessages pushes for an added id: the metadata fetch's
\* result, or added.message (id and threadId only) when the fetch failed.
FetchedMessage(box, id, fetched) ==
    [id |-> id, payload |-> fetched, from |-> IF fetched THEN box[id] ELSE NoFrom]

\* getNewMessages(userId, startHistoryId), given which fetches succeed.
getNewMessages(box, startHistoryId, fetchOk) ==
    LET ids == historyList(box, startHistoryId)
    IN [k \in 1..Len(ids) |-> FetchedMessage(box, ids[k], ids[k] \in fetchOk)]


\* ------------------------------------------------------------ the bots
\* A bot row (schema: bots): the senders it applies to, its active flag and
\* its four action flags.
BotFlags == {"isautoSummarize", "isautoExtractTaskes", "isautoExtractMettengs",
             "isAutoReply"}
FlagSets == {{}, {"isautoSummarize"}, {"isautoExtractTaskes"},
             {"isautoExtractMettengs"}, {"isAutoReply"}, BotFlags}
Bots == [emails : {{"boss@x.com"}}, isactive : {TRUE}, flags : FlagSets]
        \cup [emails : {{"boss@x.com"}}, isactive : {FALSE}, flags : {BotFlags}]
NoBot == [emails |-> {}, isactive |-> FALSE, flags |-> {}]

\* The first bot that lists the sender, whatever its active flag.
RECURSIVE FirstListed(_, _, _)
FirstListed(list, sender, i) ==
    IF i > Len(list) THEN NoBot
    ELSE IF sender \in list[i].emails THEN list[i]
    ELSE FirstListed(list, sender, i + 1)

\* The first bot of the user, in creation order, that lists the sender and
\* is active; NoBot when there is none.
RECURSIVE FirstMatch(_, _, _)
FirstMatch(list, sender, i) ==
    IF i > Len(list) THEN NoBot
    ELSE IF sender \in list[i].emails /\ list[i].isactive THEN list[i]
    ELSE FirstMatch(list, sender, i + 1)

\* Faulty variant: the first bot that lists the sender, active or not.
matchingBotListed(list, sender) ==
    IF sender = NoSender THEN NoBot ELSE FirstListed(list, sender, 1)

matchingBot(list, sender) ==
    IF sender = NoSender THEN NoBot ELSE FirstMatch(list, sender, 1)

\* ------------------------------------------------- the text completions
\* What the completion provider answers to the extraction request.
Completions == {"api_error", "not_json", "{}", "tasks_and_meeting"}
Drawn == {"api_error", "{}", "tasks_and_meeting"}

\* analyzeActionItems(emailBody, subject): JSON.parse of the completion;
\* tasks defaults to [], meeting to null; any failure is thrown again.
analyzeActionItems(completion) ==
    CASE completion \in {"api_error", "not_json"} ->
             [threw |-> TRUE, tasks |-> 0, meeting |-> FALSE]
      [] completion = "{}" ->
             [threw |-> FALSE, tasks |-> 0, meeting |-> FALSE]
      [] OTHER ->
             [threw |-> FALSE, tasks |-> 1, meeting |-> TRUE]

\* ------------------------------------------------------ webhooks.js
OK200 == 200

\* An envelope: req.body of the POST.
Envelopes(box) ==
    { [kind |-> "missing", emailAddress |-> "", historyId |-> Null],
      [kind |-> "malformed", emailAddress |-> "", historyId |-> Null] }
    \cup [kind : {"valid"}, emailAddress : Addresses,
          historyId : {Num(h) : h \in 1..Len(box)}]

NoEnvelope == [kind |-> "none", emailAddress |-> "", historyId |-> Null]

\* Faulty variant: the acknowledgment sent after the envelope has been decoded.
syncPrefixAckLast(e) ==
    (IF e.kind = "missing" THEN << >> ELSE << "Buffer.from", "JSON.parse" >>)
    \o << "res.json" >>

\* Lines 9-22: what the handler does before its first await, in order.
syncPrefix(e) ==
    << "res.json" >> \o
    (IF e.kind = "missing" THEN << >> ELSE << "Buffer.from", "JSON.parse" >>)

\* Faulty variant: the catch block answers fail(res, 500, ...), as the catch blocks
\* of the other controllers do.
catchBlockFail(resp) == [responses |-> resp \o << 500 >>, escaped |-> FALSE]

\* Lines 84-87: the catch block logs and sends nothing.
catchBlock(resp) == [responses |-> resp, escaped |-> FALSE]

NoUser == "null"

\* Faulty variant: a lookup that falls back on some user when none has the address.
findFirst(email) == IF email \in Users THEN email ELSE CHOOSE u \in Users : TRUE

\* prisma.user.findUnique({where: {email}}): the user, or null.
findUnique(email) == IF email \in Users THEN email ELSE NoUser

\* Faulty variant: the operands of || exchanged: the delivered historyId wins.
deliveredFirst(gmailHistoryId, historyId) == OrElse(historyId, gmailHistoryId)

\* Line 40: const lastHistoryId = user.gmailHistoryId || data.historyId
lastHistoryId(gmailHistoryId, historyId) == OrElse(gmailHistoryId, historyId)

\* Faulty variant: the checkpoint the listing started from is stored again.
staleHistoryId(gmailHistoryId, historyId) ==
    String(lastHistoryId(gmailHistoryId, historyId))

\* Line 81: data: { gmailHistoryId: String(data.historyId) }
updatedHistoryId(gmailHistoryId, historyId) == String(historyId)


\* ------------------------------------------------ the automation dispatcher
\* What the dispatcher reports of one message.
Did(message, bot, summary, task, meeting, reply, threw) ==
    [gmailId |-> message.id, matched |-> bot # NoBot, flags |-> bot.flags,
     summary |-> summary, task |-> task, meeting |-> meeting, reply |-> reply,
     threw |-> threw]

\* Faulty variant: one try/catch around the three actions, run in the order
\* summarize, extract, reply: a throw ends the dispatch of the message.
processMessageOneTry(message, bot, completion, failing) ==
    LET on(f) == f \in bot.flags
        extracting == on("isautoExtractTaskes") \/ on("isautoExtractMettengs")
        found == IF extracting THEN analyzeActionItems(completion)
                 ELSE [threw |-> FALSE, tasks |-> 0, meeting |-> FALSE]
        s == on("isautoSummarize") /\ "summarize" \in failing
        x == ~s /\ found.threw
    IN Did(message, bot,
           on("isautoSummarize") /\ ~s,
           on("isautoExtractTaskes") /\ ~s /\ ~x /\ found.tasks > 0,
           on("isautoExtractMettengs") /\ ~s /\ ~x /\ found.meeting,
           on("isAutoReply") /\ ~s /\ ~x /\ "reply" \notin failing,
           IF s THEN {"summarize"}
           ELSE IF x THEN {"extract"}
           ELSE IF on("isAutoReply") /\ "reply" \in failing THEN {"reply"}
           ELSE {})

\* Faulty variant: the reply is sent for every matched message, whatever
\* isAutoReply says.
processMessageReplies(message, bot, completion, failing) ==
    LET on(f) == f \in bot.flags
        extracting == on("isautoExtractTaskes") \/ on("isautoExtractMettengs")
        found == IF extracting THEN analyzeActionItems(completion)
                 ELSE [threw |-> FALSE, tasks |-> 0, meeting |-> FALSE]
    IN Did(message, bot,
           on("isautoSummarize") /\ "summarize" \notin failing,
           on("isautoExtractTaskes") /\ ~found.threw /\ found.tasks > 0,
           on("isautoExtractMettengs") /\ ~found.threw /\ found.meeting,
           bot # NoBot /\ "reply" \notin failing,
           (IF found.threw THEN {"extract"} ELSE {}) \cup
           (IF on("isautoSummarize") /\ "summarize" \in failing
            THEN {"summarize"} ELSE {}) \cup
           (IF bot # NoBot /\ "reply" \in failing THEN {"reply"} ELSE {}))

\* processMessage(user, message): what one message's dispatch does.  Each
\* enabled action runs in its own try/catch: `failing` are the actions whose
\* persistence or send throws, and the extraction throws when
\* analyzeActionItems does.
processMessage(message, bot, completion, failing) ==
    LET on(f) == f \in bot.flags
        extracting == on("isautoExtractTaskes") \/ on("isautoExtractMettengs")
        found == IF extracting THEN analyzeActionItems(completion)
                 ELSE [threw |-> FALSE, tasks |-> 0, meeting |-> FALSE]
    IN Did(message, bot,
           on("isautoSummarize") /\ "summarize" \notin failing,
           on("isautoExtractTaskes") /\ ~found.threw /\ found.tasks > 0,
           on("isautoExtractMettengs") /\ ~found.threw /\ found.meeting,
           on("isAutoReply") /\ "reply" \notin failing,
           (IF found.threw THEN {"extract"} ELSE {}) \cup
           (IF on("isautoSummarize") /\ "summarize" \in failing
            THEN {"summarize"} ELSE {}) \cup
           (IF on("isAutoReply") /\ "reply" \in failing
            THEN {"reply"} ELSE {}))

\* No message dispatched yet.
Nothing == [gmailId |-> 0, matched |-> FALSE, flags |-> {}, summary |-> FALSE,
            task |-> FALSE, meeting |-> FALSE, reply |-> FALSE, threw |-> {}]
NoRows == [aiSummarys |-> 0, tasks |-> 0, calendarTasks |-> 0, sent |-> 0]

\* The rows of a delivery after one more dispatch.
Count(rows, did) ==
    [aiSummarys |-> rows.aiSummarys + (IF did.summary THEN 1 ELSE 0),
     tasks |-> rows.tasks + (IF did.task THEN 1 ELSE 0),
     calendarTasks |-> rows.calendarTasks + (IF did.meeting THEN 1 ELSE 0),
     sent |-> rows.sent + (IF did.reply THEN 1 ELSE 0)]

\* ------------------------------------------------------------------- Init
BotLists == {<< >>} \cup {<< b >> : b \in Bots}
AllOn == [emails |-> {"boss@x.com"}, isactive |-> TRUE, flags |-> BotFlags]

\* No delivery yet for the invocations `handlers`, no cursor stored, and each
\* user's bots among `lists`.
InitFor(lists, handlers) ==
    /\ cursor = [u \in Users |-> Null]
    /\ bots \in [Users -> lists]
    /\ mailbox = << >>
    /\ processed = [i \in HistoryIds |-> Null]
    /\ delivered = 0
    /\ pc = [h \in handlers |-> "idle"]
    /\ env = [h \in handlers |-> NoEnvelope]
    /\ user = [h \in handlers |-> NoUser]
    /\ start = [h \in handlers |-> Null]
    /\ batch = [h \in handlers |-> << >>]
    /\ idx = [h \in handlers |-> 1]
    /\ log = [h \in handlers |-> << >>]
    /\ responses = [h \in handlers |-> << >>]
    /\ escaped = [h \in handlers |-> FALSE]
    /\ outcome = [h \in handlers |-> "none"]
    /\ writes = [h \in handlers |-> << >>]
    /\ made = [h \in handlers |-> NoRows]
    /\ last = [h \in handlers |-> Nothing]

InitWith(lists) == InitFor(lists, Handlers)

\* ------------------------------------------------------------ the mailbox
\* A message arrives in the INBOX: the provider's history grows by one.
Arrive ==
    /\ Len(mailbox) < MaxHist
    /\ \E from \in Froms : mailbox' = Append(mailbox, from)
    /\ UNCHANGED << cursor, bots, delivered, handlerVars, storeVars >>
    /\ UNCHANGED << tableVars, helperVars, requestVars >>

\* setupGmailWatch(userId, topicName): users.watch answers the mailbox's
\* current historyId, which is stored as the user's gmailHistoryId.
setupGmailWatch(u) ==
    /\ cursor' = [cursor EXCEPT ![u] = String(Num(Len(mailbox)))]
    /\ UNCHANGED << bots, mailbox, delivered, handlerVars, storeVars >>
    /\ UNCHANGED << tableVars, helperVars, requestVars >>

\* ---------------------------------------------------- handleGmailWebhook
\* The handler ends in its catch block (lines 84-87); its locals are gone.
Caught(h, steps) ==
    LET c == catchBlock(responses[h])
    IN /\ pc' = [pc EXCEPT ![h] = "done"]
       /\ outcome' = [outcome EXCEPT ![h] = "error"]
       /\ log' = [log EXCEPT ![h] = @ \o steps]
       /\ responses' = [responses EXCEPT ![h] = c.responses]
       /\ escaped' = [escaped EXCEPT ![h] = c.escaped]
       /\ batch' = [batch EXCEPT ![h] = << >>]
       /\ idx' = [idx EXCEPT ![h] = 1]

\* Lines 8-30 of a new delivery: the acknowledgment, the envelope check, the
\* decoding and the parse, up to the await of the user lookup.
Receive(h) ==
    /\ pc[h] \in {"idle", "done"}
    /\ delivered < MaxDeliveries
    /\ delivered' = delivered + 1
    /\ \E e \in Envelopes(mailbox) :
         LET steps == syncPrefix(e)
             acked == IF \E i \in DOMAIN steps : steps[i] = "res.json"
                      THEN << OK200 >> ELSE << >>
             c == catchBlock(acked)
         IN /\ env' = [env EXCEPT ![h] = e]
            /\ log' = [log EXCEPT ![h] = steps]
            /\ pc' = [pc EXCEPT ![h] = IF e.kind = "valid" THEN "findUser" ELSE "done"]
            /\ outcome' = [outcome EXCEPT ![h] =
                             CASE e.kind = "missing" -> "invalid_format"
                               [] e.kind = "malformed" -> "error"
                               [] OTHER -> "running"]
            /\ responses' = [responses EXCEPT ![h] =
                               IF e.kind = "malformed" THEN c.responses ELSE acked]
            /\ escaped' = [escaped EXCEPT ![h] =
                             IF e.kind = "malformed" THEN c.escaped ELSE FALSE]
    /\ user' = [user EXCEPT ![h] = NoUser]
    /\ start' = [start EXCEPT ![h] = Null]
    /\ batch' = [batch EXCEPT ![h] = << >>]
    /\ idx' = [idx EXCEPT ![h] = 1]
    /\ writes' = [writes EXCEPT ![h] = << >>]
    /\ made' = [made EXCEPT ![h] = NoRows]
    /\ last' = [last EXCEPT ![h] = Nothing]
    /\ UNCHANGED << cursor, bots, mailbox, storeVars >>
    /\ UNCHANGED << tableVars, helperVars, requestVars >>

\* Lines 30-43: the user lookup resolves; an unknown address ends the
\* handler, a known one fixes the checkpoint and calls getNewMessages.
FindUser(h) ==
    /\ pc[h] = "findUser"
    /\ \/ /\ Caught(h, << "user.findUnique" >>)          \* the query rejects
          /\ UNCHANGED << user, start >>
       \/ LET found == findUnique(env[h].emailAddress)
          IN IF found = NoUser
             THEN /\ pc' = [pc EXCEPT ![h] = "done"]
                  /\ outcome' = [outcome EXCEPT ![h] = "no_user"]
                  /\ log' = [log EXCEPT ![h] = @ \o << "user.findUnique" >>]
                  /\ UNCHANGED << user, start, responses, escaped, batch, idx >>
             ELSE /\ pc' = [pc EXCEPT ![h] = "list"]
                  /\ user' = [user EXCEPT ![h] = found]
                  /\ start' = [start EXCEPT ![h] =
                                 lastHistoryId(cursor[found], env[h].historyId)]
                  /\ log' = [log EXCEPT ![h] = @ \o << "user.findUnique" >>]
                  /\ UNCHANGED << outcome, responses, escaped, batch, idx >>
    /\ UNCHANGED << cursor, bots, mailbox, delivered, env, writes, made, last,
                    storeVars >>
    /\ UNCHANGED << tableVars, helperVars, requestVars >>

\* Line 43 and getNewMessages: the history listing and the metadata fetch of
\* every added message; a failed fetch leaves the bare message in the batch,
\* a failed listing is thrown to the handler's catch block.
ListHistory(h) ==
    /\ pc[h] = "list"
    /\ \/ Caught(h, << "getNewMessages" >>)
       \/ \E fetchOk \in SUBSET {i \in HistoryIds : i > HistoryValue(start[h])} :
            LET newMessages == getNewMessages(mailbox, start[h], fetchOk)
            IN /\ batch' = [batch EXCEPT ![h] = newMessages]
               /\ idx' = [idx EXCEPT ![h] = 1]
               /\ pc' = [pc EXCEPT ![h] =
                           IF Len(newMessages) = 0 THEN "update" ELSE "loop"]
               /\ log' = [log EXCEPT ![h] = @ \o << "getNewMessages" >>]
               /\ UNCHANGED << outcome, responses, escaped >>
    /\ UNCHANGED << cursor, bots, mailbox, delivered, env, user, start, writes,
                    made, last, storeVars >>
    /\ UNCHANGED << tableVars, helperVars, requestVars >>

\* Lines 53-76: one turn of the loop over newMessages: the sender is read,
\* the user's matching bot is looked up and its enabled actions run.
ProcessOne(h) ==
    /\ pc[h] = "loop"
    /\ LET u == user[h]
           message == batch[h][idx[h]]
           bot == matchingBot(bots[u], getSenderEmail(message))
       IN \E completion \in Drawn, failing \in SUBSET {"summarize", "reply"} :
            LET did == processMessage(message, bot, completion, failing)
            IN /\ made' = [made EXCEPT ![h] = Count(@, did)]
               /\ last' = [last EXCEPT ![h] = did]
               /\ processed' = [processed EXCEPT ![message.id] =
                                                Num(HistoryValue(start[h]))]
    /\ idx' = [idx EXCEPT ![h] = @ + 1]
    /\ pc' = [pc EXCEPT ![h] = IF idx[h] + 1 > Len(batch[h]) THEN "update" ELSE "loop"]
    /\ log' = [log EXCEPT ![h] = @ \o << "processMessage" >>]
    /\ UNCHANGED << cursor, bots, mailbox, delivered, env, user, start, batch,
                    responses, escaped, outcome, writes >>
    /\ UNCHANGED << tableVars, helperVars, requestVars >>

\* Lines 78-82: the user's gmailHistoryId is overwritten with the delivered
\* historyId.
UpdateCursor(h) ==
    /\ pc[h] = "update"
    /\ \/ /\ Caught(h, << "user.update" >>)              \* the update rejects
          /\ UNCHANGED << cursor, writes >>
       \/ LET u == user[h]
              id == updatedHistoryId(cursor[u], env[h].historyId)
          IN /\ cursor' = [cursor EXCEPT ![u] = id]
             /\ writes' = [writes EXCEPT ![h] = Append(@, id)]
             /\ pc' = [pc EXCEPT ![h] = "done"]
             /\ outcome' = [outcome EXCEPT ![h] = "ok"]
             /\ log' = [log EXCEPT ![h] = @ \o << "user.update" >>]
             /\ batch' = [batch EXCEPT ![h] = << >>]
             /\ idx' = [idx EXCEPT ![h] = 1]
             /\ UNCHANGED << responses, escaped >>
    /\ UNCHANGED << bots, mailbox, delivered, env, user, start, made, last,
                    storeVars >>
    /\ UNCHANGED << tableVars, helperVars, requestVars >>

\* ------------------------------------------------ the parts left idle
\* No controller has been called and the job has not run: the tables are
\* empty.
NoAnswer == [op |-> "none", user |-> "none", status |-> 0, id |-> 0, data |-> << >>,
             count |-> 0, unread |-> 0]

TablesIdle ==
    /\ notifications = << >>
    /\ calendarTasks = << >>
    /\ tasks = << >>
    /\ currentDate = 0
    /\ templets = {}
    /\ created = 0
    /\ answer = NoAnswer

\* No helper has been called.
NoCall == [fn |-> "none", arg |-> << >>]

HelpersIdle ==
    /\ call = NoCall
    /\ ret = << >>

\* No delivery is received: the webhook stays as constructed.
WebhookIdle == InitWith({<< >>})

\* No request is in flight, no credentials are set on the OAuth2 client, and
\* the users, bots and ai_summarys tables are empty.
NoCredentials == "none"
EmptyDb ==
    [users |-> {}, bots |-> {}, tasks |-> << >>, calendarTasks |-> << >>,
     aiSummarys |-> << >>]

RequestsIdle ==
    /\ procs = << >>
    /\ client = NoCredentials
    /\ db = EmptyDb

\* ------------------------------------------------------ the specification
\* Deliveries handled one after the other by one invocation at a time.
Next ==
    \/ Arrive
    \/ \E u \in Users : setupGmailWatch(u)
    \/ \E h \in Handlers : Receive(h)
    \/ \E h \in Handlers : FindUser(h)
    \/ \E h \in Handlers : ListHistory(h)
    \/ \E h \in Handlers : ProcessOne(h)
    \/ \E h \in Handlers : UpdateCursor(h)

\* The user has no bot, or one active bot with every action enabled.
Init == InitWith({<< >>, << AllOn >>}) /\ TablesIdle /\ HelpersIdle /\ RequestsIdle

Spec == Init /\ [][Next]_vars

\* The first delivery to a user, for every configuration of the user's bot.
First(h) == delivered = 0 /\ Receive(h)

NextFirst ==
    \/ Arrive
    \/ \E u \in Users : setupGmailWatch(u)
    \/ \E h \in Handlers : First(h)
    \/ \E h \in Handlers : FindUser(h)
    \/ \E h \in Handlers : ListHistory(h)
    \/ \E h \in Handlers : ProcessOne(h)
    \/ \E h \in Handlers : UpdateCursor(h)

InitBots == InitWith(BotLists) /\ TablesIdle /\ HelpersIdle /\ RequestsIdle

SpecBots == InitBots /\ [][NextFirst]_vars

\* ==================================================== the notification store
\* The ids of the User rows, and a request that carries no req.user.
Accounts == {"u1", "u2"}
NoAuth == "anonymous"
Callers == Accounts \cup {NoAuth}

\* Time in milliseconds; the clock is read every half hour.
MaxClock == 4
HalfHour == 30 * 60 * 1000
Clock == {k * HalfHour : k \in 0..MaxClock}

\* Line 15: const oneHour = 60 * 60 * 1000
oneHour == 60 * 60 * 1000

\* A calendar_tasks row and a tasks row, with the columns the job and the
\* controllers read.
CalendarTask(userId, dueDate, status, googleEventId) ==
    [userId |-> userId, dueDate |-> dueDate, status |-> status,
     priority |-> "medium", googleEventId |-> googleEventId]

Task(userId, taskDate, isDoneTask) ==
    [userId |-> userId, taskDate |-> taskDate, isDoneTask |-> isDoneTask]

\* The row prisma.notification.create inserts (lines 44-55 and 94-105);
\* isDeleted defaults to false.
Notification(type, taskId, userId) ==
    [type |-> type, taskId |-> taskId, userId |-> userId, priority |-> "high",
     isRead |-> FALSE, isActionDone |-> FALSE, isDeleted |-> FALSE]

\* What the job's two findMany queries return, calendar tasks first: every
\* row with whether the where clause selects it (status pending; isDoneTask
\* false and taskDate not null).
Candidates(cal, tk) ==
    [i \in 1..(Len(cal) + Len(tk)) |->
        IF i <= Len(cal)
        THEN [type |-> "calendarTask", taskId |-> i, userId |-> cal[i].userId,
              due |-> cal[i].dueDate, found |-> cal[i].status = "pending"]
        ELSE LET j == i - Len(cal)
             IN [type |-> "task", taskId |-> j, userId |-> tk[j].userId,
                 due |-> tk[j].taskDate.v,
                 found |-> ~tk[j].isDoneTask /\ tk[j].taskDate # Null]]

\* Faulty variant: a task already past due is notified as well.
inWindowOrPast(timeDifference) == timeDifference <= oneHour

\* Lines 33 and 83: timeDifference > 0 && timeDifference <= oneHour
inWindow(timeDifference) == timeDifference > 0 /\ timeDifference <= oneHour

\* Faulty variant: the lookup skips the notifications the user has deleted.
existingVisible(table, taskId, type) ==
    \E i \in DOMAIN table :
        table[i].taskId = taskId /\ table[i].type = type /\ ~table[i].isDeleted

\* Lines 35-40 and 85-90: prisma.notification.findFirst({where: {taskId, type}})
existingNotification(table, taskId, type) ==
    \E i \in DOMAIN table : table[i].taskId = taskId /\ table[i].type = type

\* The two loops of the job over the first `upto` candidates, at clock `now`.
RECURSIVE runJob(_, _, _, _, _)
runJob(table, items, i, upto, now) ==
    IF i > upto THEN table
    ELSE LET it == items[i]
             add == /\ it.found
                    /\ inWindow(it.due - now)
                    /\ ~existingNotification(table, it.taskId, it.type)
         IN runJob(IF add THEN Append(table, Notification(it.type, it.taskId, it.userId))
                   ELSE table,
                   items, i + 1, upto, now)

\* What a controller or the job answers: the operation, who called it, the
\* HTTP status, the id it was about, the ids it returned, and its counts.
Answer(op, caller, status, id, data, count, unread) ==
    [op |-> op, user |-> caller, status |-> status, id |-> id, data |-> data,
     count |-> count, unread |-> unread]

\* startNotificationJob: one run of the cron callback at a clock not before
\* the previous run's; a query that rejects ends the run in its catch block
\* after `upto` candidates.
startNotificationJob ==
    \E now \in Clock, upto \in 0..(Len(calendarTasks) + Len(tasks)) :
        /\ now >= currentDate
        /\ LET items == Candidates(calendarTasks, tasks)
               table == runJob(notifications, items, 1, upto, now)
           IN /\ notifications' = table
              /\ answer' = Answer(IF upto = Len(items) THEN "startNotificationJob"
                                  ELSE "startNotificationJob.catch",
                                  "cron", 0, 0, << >>, Len(table) - Len(notifications), 0)
        /\ currentDate' = now
        /\ UNCHANGED << calendarTasks, tasks, templets, created >>
        /\ UNCHANGED << webhookVars, helperVars, requestVars >>

\* ------------------------------------------- the notification controller
\* The ids of a set, newest first (orderBy createdAt desc).
RECURSIVE Descending(_)
Descending(S) ==
    IF S = {} THEN << >>
    ELSE LET m == CHOOSE x \in S : \A y \in S : y <= x
         IN << m >> \o Descending(S \ {m})

\* findMany's skip and take.
SkipTake(seq, skip, take) ==
    [k \in 1..(IF Len(seq) - skip < 0 THEN 0
               ELSE IF Len(seq) - skip < take THEN Len(seq) - skip
               ELSE take) |-> seq[skip + k]]

\* Faulty variant: the list's where clause without isDeleted: false.
listWhereAll(table, userId, isRead, type, priority) ==
    {i \in DOMAIN table :
        /\ table[i].userId = userId
        /\ isRead # "undefined" => table[i].isRead = (isRead = "true")
        /\ type # "undefined" => table[i].type = type
        /\ priority # "undefined" => table[i].priority = priority}

\* Lines 19-35: the where clause of getNotifications.
listWhere(table, userId, isRead, type, priority) ==
    {i \in DOMAIN table :
        /\ table[i].userId = userId
        /\ ~table[i].isDeleted
        /\ isRead # "undefined" => table[i].isRead = (isRead = "true")
        /\ type # "undefined" => table[i].type = type
        /\ priority # "undefined" => table[i].priority = priority}

\* The ids of the notifications a request may name: the rows and one id
\* that no row has.
NotificationIds == 1..(Len(notifications) + 1)

\* A controller's early returns: 401 without req.user, 500 when a query
\* rejects.
Refused(op, caller, status, id) ==
    /\ answer' = Answer(op, caller, status, id, << >>, 0, 0)
    /\ UNCHANGED notifications

\* req.query: page, limit, isRead, type and priority.
Query(page, limit, isRead, type, priority) ==
    [page |-> page, limit |-> limit, isRead |-> isRead, type |-> type,
     priority |-> priority]
Queries ==
    {Query(page, 1, "undefined", "undefined", "undefined") : page \in {1, 2}} \cup
    {Query(1, 5, isRead, "undefined", "undefined") :
        isRead \in {"undefined", "true", "false"}} \cup
    {Query(1, 5, "undefined", "task", "undefined"),
     Query(1, 5, "undefined", "undefined", "low")}

\* GET /api/notifications
getNotifications ==
    /\ \E u \in Callers, query \in Queries :
       LET page == query.page
           limit == query.limit
           isRead == query.isRead
           type == query.type
           priority == query.priority
       IN
         \/ u = NoAuth /\ Refused("getNotifications", u, 401, 0)
         \/ u # NoAuth /\ Refused("getNotifications", u, 500, 0)
         \/ /\ u # NoAuth
            /\ LET ids == listWhere(notifications, u, isRead, type, priority)
                   unread == listWhere(notifications, u, "false", "undefined",
                                       "undefined")
               IN answer' = Answer("getNotifications", u, 200, 0,
                                   SkipTake(Descending(ids), (page - 1) * limit, limit),
                                   Cardinality(ids), Cardinality(unread))
            /\ UNCHANGED notifications
    /\ UNCHANGED << calendarTasks, tasks, currentDate, templets, created >>
    /\ UNCHANGED << webhookVars, helperVars, requestVars >>

\* PUT /api/notifications/mark-all-read
markAllAsRead ==
    /\ \E u \in Callers :
         \/ u = NoAuth /\ Refused("markAllAsRead", u, 401, 0)
         \/ u # NoAuth /\ Refused("markAllAsRead", u, 500, 0)
         \/ /\ u # NoAuth
            /\ LET ids == {i \in DOMAIN notifications :
                              /\ notifications[i].userId = u
                              /\ ~notifications[i].isRead
                              /\ ~notifications[i].isDeleted}
               IN /\ notifications' =
                         [i \in DOMAIN notifications |->
                             IF i \in ids
                             THEN [notifications[i] EXCEPT !.isRead = TRUE]
                             ELSE notifications[i]]
                  /\ answer' = Answer("markAllAsRead", u, 200, 0, << >>,
                                      Cardinality(ids), 0)
    /\ UNCHANGED << calendarTasks, tasks, currentDate, templets, created >>
    /\ UNCHANGED << webhookVars, helperVars, requestVars >>

\* Lines 145-153: data: { isDeleted: true }
deletedRow(row) == [row EXCEPT !.isDeleted = TRUE]

\* Line 140: if (notification.isDeleted)
alreadyDeleted(row) == row.isDeleted

\* DELETE /api/notifications/:id
deleteNotification ==
    /\ \E u \in Callers, id \in NotificationIds :
         \/ u = NoAuth /\ Refused("deleteNotification", u, 401, id)
         \/ u # NoAuth /\ Refused("deleteNotification", u, 500, id)
         \/ /\ u # NoAuth
            /\ LET found == id \in DOMAIN notifications
                            /\ notifications[id].userId = u
               IN IF ~found THEN Refused("deleteNotification", u, 404, id)
                  ELSE IF alreadyDeleted(notifications[id])
                  THEN Refused("deleteNotification", u, 400, id)
                  ELSE /\ notifications' =
                              [notifications EXCEPT ![id] = deletedRow(@)]
                       /\ answer' = Answer("deleteNotification", u, 200, id, << id >>,
                                           0, 0)
    /\ UNCHANGED << calendarTasks, tasks, currentDate, templets, created >>
    /\ UNCHANGED << webhookVars, helperVars, requestVars >>

\* Lines 179-185: where: { id, userId, isDeleted: false }
readable(row, userId) == row.userId = userId /\ ~row.isDeleted

\* PUT /api/notifications/:id/mark-read
markAsRead ==
    /\ \E u \in Callers, id \in NotificationIds :
         \/ u = NoAuth /\ Refused("markAsRead", u, 401, id)
         \/ u # NoAuth /\ Refused("markAsRead", u, 500, id)
         \/ /\ u # NoAuth
            /\ LET found == id \in DOMAIN notifications
                            /\ readable(notifications[id], u)
               IN IF ~found THEN Refused("markAsRead", u, 404, id)
                  ELSE /\ notifications' =
                              [notifications EXCEPT ![id].isRead = TRUE]
                       /\ answer' = Answer("markAsRead", u, 200, id, << id >>, 0, 0)
    /\ UNCHANGED << calendarTasks, tasks, currentDate, templets, created >>
    /\ UNCHANGED << webhookVars, helperVars, requestVars >>

\* DELETE /api/notifications/bulk-delete
bulkDeleteNotifications ==
    /\ \E u \in Callers, notificationIds \in SUBSET NotificationIds :
         \/ u = NoAuth /\ Refused("bulkDeleteNotifications", u, 401, 0)
         \/ u # NoAuth /\ Refused("bulkDeleteNotifications", u, 500, 0)
         \/ /\ u # NoAuth
            /\ IF notificationIds = {}
               THEN Refused("bulkDeleteNotifications", u, 400, 0)
               ELSE LET ids == {i \in DOMAIN notifications :
                                   /\ i \in notificationIds
                                   /\ notifications[i].userId = u
                                   /\ ~notifications[i].isDeleted}
                    IN /\ notifications' =
                              [i \in DOMAIN notifications |->
                                  IF i \in ids THEN deletedRow(notifications[i])
                                  ELSE notifications[i]]
                       /\ answer' = Answer("bulkDeleteNotifications", u, 200, 0, << >>,
                                           Cardinality(ids), 0)
    /\ UNCHANGED << calendarTasks, tasks, currentDate, templets, created >>
    /\ UNCHANGED << webhookVars, helperVars, requestVars >>

\* The job and the notification controller, over one calendar task of u1
\* due at 01:30 and one task of u2 due at 01:00.
NextNotify ==
    \/ startNotificationJob
    \/ getNotifications
    \/ markAllAsRead
    \/ deleteNotification
    \/ markAsRead
    \/ bulkDeleteNotifications

InitNotify ==
    /\ WebhookIdle
    /\ RequestsIdle
    /\ HelpersIdle
    /\ notifications = << >>
    /\ calendarTasks \in {<< CalendarTask("u1", 3 * HalfHour, st, Null) >> :
                             st \in {"pending", "completed"}}
    /\ tasks \in {<< Task("u2", Num(2 * HalfHour), FALSE) >>,
                  << Task("u2", Num(2 * HalfHour), TRUE) >>,
                  << Task("u2", Null, FALSE) >>}
    /\ currentDate = 0
    /\ templets = {}
    /\ created = 0
    /\ answer = NoAnswer

SpecNotify == InitNotify /\ [][NextNotify]_vars

\* ================================================ the calendar-task controller
\* controllers/calendar.js, addTask (lines 5-75).
MaxCalendarTasks == 2     \* rows addTask may add to calendar_tasks

\* What createCalendarEvent (calendarService) gives back: it throws, or it
\* resolves with the event the calendar created, whose id is a string.
Thrown == [t |-> "throw", v |-> 0]
EventIds == {1, 2}
CalendarOutcomes == {Thrown} \cup {Str(e) : e \in EventIds}

\* new Date(dueDate) of something that is not a date: getTime() is NaN.
InvalidDate == [t |-> "invalid date", v |-> 0]

validStatuses == {"pending", "completed", "cancelled"}
validPriorities == {"low", "medium", "high"}

\* x || d, where an absent field is "undefined".
OrDefault(x, d) == IF x = "undefined" THEN d ELSE x

\* Lines 39-52: googleEventId is null, and the try block assigns it the id of
\* the event; the catch block logs and leaves it null.
googleEventIdKept(result) == IF result = Thrown THEN Str(1) ELSE result
googleEventId(result) == IF result = Thrown THEN Null ELSE result

\* The call made on the calendar and what came of it.
Called(fn, arg, result) ==
    /\ call' = [fn |-> fn, arg |-> arg]
    /\ ret' = << result >>

\* A request that ends at one of the early returns: nothing is called and
\* nothing is stored.
failAddTask(caller, status) ==
    /\ answer' = Answer("addTask", caller, status, 0, << >>, 0, 0)
    /\ call' = NoCall
    /\ ret' = << >>
    /\ UNCHANGED calendarTasks

addTask ==
    /\ Len(calendarTasks) < MaxCalendarTasks
    /\ \E u \in Callers, title \in {Null, Str(1)},
          dueDate \in {Null, InvalidDate, Num(3 * HalfHour)},
          status \in {"undefined", "completed", "unknown"},
          priority \in {"undefined", "unknown"},
          result \in CalendarOutcomes, stored \in BOOLEAN :
         IF u = NoAuth
         THEN failAddTask(u, 401)
         ELSE IF ~Truthy(title) \/ dueDate = Null
         THEN failAddTask(u, 400)
         ELSE IF dueDate = InvalidDate
         THEN failAddTask(u, 400)
         ELSE IF status # "undefined" /\ status \notin validStatuses
         THEN failAddTask(u, 400)
         ELSE IF priority # "undefined" /\ priority \notin validPriorities
         THEN failAddTask(u, 400)
         ELSE /\ Called("createCalendarEvent", << u >>, result)
              /\ IF stored
                 THEN /\ calendarTasks' =
                           Append(calendarTasks,
                                  CalendarTask(u, dueDate.v,
                                               OrDefault(status, "pending"),
                                               googleEventId(result)))
                      /\ answer' = Answer("addTask", u, 200,
                                          Len(calendarTasks) + 1, << >>, 0, 0)
                 ELSE \* prisma.calendarTask.create rejects: lines 71-74
                      /\ answer' = Answer("addTask.catch", u, 500, 0, << >>, 0, 0)
                      /\ UNCHANGED calendarTasks
    /\ UNCHANGED << webhookVars, notifications, tasks, currentDate, templets,
                    created, requestVars >>

NextCalendar == addTask

InitCalendar == WebhookIdle /\ TablesIdle /\ HelpersIdle /\ RequestsIdle

SpecCalendar == InitCalendar /\ [][NextCalendar]_vars

\* ==================================================== the template controller
\* The templates controller (part_018).  A templets row has no userId column
\* and createTemplate stores none; createdBy is the user whose request created
\* the row, which the model keeps beside the row and no handler reads.
MaxTemplates == 2     \* rows createTemplate may create

Templet(id, createdBy, name, isFavorets) ==
    [id |-> id, createdBy |-> createdBy, name |-> name, isFavorets |-> isFavorets]

TemplateIds == 1..(created + 1)

failTemplate(op, caller, status, id) ==
    /\ answer' = Answer(op, caller, status, id, << >>, 0, 0)
    /\ UNCHANGED << templets, created >>

\* prisma.templete.findUnique({where: {id}}): the row with this id, whoever created it.
findTemplete(table, id) == {row \in table : row.id = id}

\* Lines 5-35.
createTemplate ==
    /\ created < MaxTemplates
    /\ \E u \in Callers, name \in {Null, Str(1)} :
         IF u = NoAuth
         THEN failTemplate("createTemplate", u, 401, 0)
         ELSE IF ~Truthy(name)
         THEN failTemplate("createTemplate", u, 400, 0)
         ELSE \/ /\ created' = created + 1
                 /\ templets' = templets \cup
                                  {Templet(created + 1, u, name, FALSE)}
                 /\ answer' = Answer("createTemplate", u, 200, created + 1,
                                     << Templet(created + 1, u, name, FALSE) >>,
                                     0, 0)
              \/ failTemplate("createTemplate", u, 500, 0)
    /\ UNCHANGED << webhookVars, notifications, calendarTasks, tasks,
                    currentDate, helperVars, requestVars >>

\* The rows of a set, newest first (orderBy createdAt desc).
RECURSIVE NewestFirst(_)
NewestFirst(rows) ==
    IF rows = {} THEN << >>
    ELSE LET newest == CHOOSE row \in rows : \A other \in rows : other.id <= row.id
         IN << newest >> \o NewestFirst(rows \ {newest})

\* Lines 87-105: findMany with no where clause.
getTemplatesByUser ==
    /\ \E u \in Callers :
         IF u = NoAuth
         THEN failTemplate("getTemplatesByUser", u, 401, 0)
         ELSE \/ /\ answer' = Answer("getTemplatesByUser", u, 200, 0,
                                     NewestFirst(templets), 0, 0)
                 /\ UNCHANGED << templets, created >>
              \/ failTemplate("getTemplatesByUser", u, 500, 0)
    /\ UNCHANGED << webhookVars, notifications, calendarTasks, tasks,
                    currentDate, helperVars, requestVars >>

\* Lines 107-134.
getTemplateById ==
    /\ \E u \in Callers, id \in TemplateIds :
         IF u = NoAuth
         THEN failTemplate("getTemplateById", u, 401, id)
         ELSE IF findTemplete(templets, id) = {}
         THEN failTemplate("getTemplateById", u, 404, id)
         ELSE \/ /\ answer' = Answer("getTemplateById", u, 200, id,
                                     NewestFirst(findTemplete(templets, id)), 0, 0)
                 /\ UNCHANGED << templets, created >>
              \/ failTemplate("getTemplateById", u, 500, id)
    /\ UNCHANGED << webhookVars, notifications, calendarTasks, tasks,
                    currentDate, helperVars, requestVars >>

\* Lines 136-180: the row is looked up and updated by its id alone.
updateTemplateById ==
    /\ \E u \in Callers, id \in TemplateIds, isFavorets \in BOOLEAN :
         IF u = NoAuth
         THEN failTemplate("updateTemplateById", u, 401, id)
         ELSE IF findTemplete(templets, id) = {}
         THEN failTemplate("updateTemplateById", u, 404, id)
         ELSE \/ LET old == CHOOSE row \in templets : row.id = id
                     new == [old EXCEPT !.isFavorets = isFavorets]
                 IN /\ templets' = (templets \ {old}) \cup {new}
                    /\ answer' = Answer("updateTemplateById", u, 200, id,
                                        << new >>, 0, 0)
                    /\ UNCHANGED created
              \/ failTemplate("updateTemplateById", u, 500, id)
    /\ UNCHANGED << webhookVars, notifications, calendarTasks, tasks,
                    currentDate, helperVars, requestVars >>

\* Lines 182-217: the row is looked up and deleted by its id alone.
deleteTemplateById ==
    /\ \E u \in Callers, id \in TemplateIds :
         IF u = NoAuth
         THEN failTemplate("deleteTemplateById", u, 401, id)
         ELSE IF findTemplete(templets, id) = {}
         THEN failTemplate("deleteTemplateById", u, 404, id)
         ELSE \/ /\ templets' = templets \ findTemplete(templets, id)
                 /\ answer' = Answer("deleteTemplateById", u, 200, id, << >>, 0, 0)
                 /\ UNCHANGED created
              \/ failTemplate("deleteTemplateById", u, 500, id)
    /\ UNCHANGED << webhookVars, notifications, calendarTasks, tasks,
                    currentDate, helperVars, requestVars >>

NextTemplates ==
    \/ createTemplate
    \/ getTemplatesByUser
    \/ getTemplateById
    \/ updateTemplateById
    \/ deleteTemplateById

InitTemplates == WebhookIdle /\ TablesIdle /\ HelpersIdle /\ RequestsIdle

SpecTemplates == InitTemplates /\ [][NextTemplates]_vars

\* =============================================== the parsing of completions
\* A completion is a string; the model keeps it as a sequence of pieces.
\*   "{" "}"   the braces              "fence"  a code fence (three backticks)
\*   "json"    the word json           "w"      a word of prose
\*   "n"       a newline               "q"      a double quote
\*   "k"       a member of an object, with its quoted key
\*   "eq" "ek" "en"   inside a JSON string literal: the escaped quote, the
\*                    member with its quotes escaped, the escaped newline.
MaxText == 7      \* pieces of a completion

Plain == {"{", "}", "fence", "json", "w"}
Escaped == {"eq", "ek", "en"}

\* A parsed value, the null of safeParseAgentJson, and a thrown SyntaxError.
Value(t, v) == [threw |-> FALSE, t |-> t, v |-> v]
NullValue == Value("null", << >>)
SyntaxError == [threw |-> TRUE, t |-> "SyntaxError", v |-> << >>]

\* String.prototype.trim on the pieces.
trim(s) ==
    LET inked == {i \in DOMAIN s : s[i] # "n"}
    IN IF inked = {} THEN << >>
       ELSE SubSeq(s, CHOOSE i \in inked : \A j \in inked : i <= j,
                      CHOOSE i \in inked : \A j \in inked : j <= i)

\* What a string literal's piece stands for once the literal is decoded, and
\* the piece that stands for it inside a literal.
unescapePiece(p) ==
    CASE p = "eq" -> "q" [] p = "ek" -> "k" [] p = "en" -> "n" [] OTHER -> p
escapePiece(p) ==
    CASE p = "q" -> "eq" [] p = "k" -> "ek" [] p = "n" -> "en" [] OTHER -> p

\* JSON.parse(s): an object with no member or one, or a string literal (which
\* holds no bare quote and no bare newline); anything else is a SyntaxError.
JSONparse(s) ==
    LET body == trim(s)
        inner == SubSeq(body, 2, Len(body) - 1)
        members == SelectSeq(inner, LAMBDA p : p # "n")
    IN IF Len(body) >= 2 /\ body[1] = "{" /\ body[Len(body)] = "}"
          /\ members \in {<< >>, << "k" >>}
       THEN Value("object", members)
       ELSE IF Len(body) >= 2 /\ body[1] = "q" /\ body[Len(body)] = "q"
               /\ \A i \in DOMAIN inner : inner[i] \notin {"q", "k", "n"}
       THEN Value("string", [i \in DOMAIN inner |-> unescapePiece(inner[i])])
       ELSE SyntaxError

\* Lines 112-114: the opening fence with its optional json and the closing fence are
\* removed, and the rest is trimmed.
stripFences(s) ==
    LET opened == IF Len(s) >= 2 /\ s[2] = "json" THEN SubSeq(s, 3, Len(s))
                  ELSE SubSeq(s, 2, Len(s))
        inked == {i \in DOMAIN opened : opened[i] # "n"}
        final == IF inked = {} THEN 0
                ELSE CHOOSE i \in inked : \A j \in inked : j <= i
        closed == IF final > 0 /\ opened[final] = "fence"
                  THEN SubSeq(opened, 1, final - 1) ELSE opened
    IN trim(closed)

\* Lines 109-114.
unfenced(s) == IF s # << >> /\ s[1] = "fence" THEN stripFences(s) ELSE s

\* Lines 116-120: the text from the first brace to the last one.
isolated(s) ==
    LET firstBrace == {i \in DOMAIN s : s[i] = "{"}
        lastBrace == {i \in DOMAIN s : s[i] = "}"}
    IN IF firstBrace # {} /\ lastBrace # {}
       THEN SubSeq(s, CHOOSE i \in firstBrace : \A j \in firstBrace : i <= j,
                      CHOOSE i \in lastBrace : \A j \in lastBrace : j <= i)
       ELSE s

\* Lines 125-132 and 143-146: a string is parsed once more, and kept as
\* {_raw: parsed} when that fails.
reparsed(parsed) ==
    IF parsed.t = "string"
    THEN IF JSONparse(parsed.v).threw THEN Value("_raw", parsed.v)
         ELSE JSONparse(parsed.v)
    ELSE parsed

\* Lines 136-141: the quote at either end is dropped and the escapes undone.
unescaped(s) ==
    LET from == IF s # << >> /\ s[1] = "q" THEN 2 ELSE 1
        to == IF s # << >> /\ s[Len(s)] = "q" THEN Len(s) - 1 ELSE Len(s)
        bare == SubSeq(s, from, to)
    IN [i \in DOMAIN bare |-> unescapePiece(bare[i])]

\* safeParseAgentJson(raw), lines 108-151.
safeParseAgentJson(raw) ==
    LET s == isolated(unfenced(trim(raw)))
    IN IF ~JSONparse(s).threw THEN reparsed(JSONparse(s))
       ELSE IF ~JSONparse(unescaped(s)).threw THEN reparsed(JSONparse(unescaped(s)))
       ELSE NullValue

\* text || "{}"
OrEmptyObject(text) == IF text = << >> THEN << "{", "}" >> ELSE text

\* analyzeActionItems (part_022), lines 126-137: JSON.parse(jsonText || "{}"),
\* {tasks: result.tasks || [], meeting: result.meeting || null}, and the catch
\* block throws the error again.
parseActionItems(jsonText) ==
    LET result == JSONparse(OrEmptyObject(jsonText))
    IN IF result.threw THEN result
       ELSE Value("object", IF result.t = "object" THEN result.v ELSE << >>)

\* getSmartInboxAnalysis (part_022), lines 66-70: the catch block returns the
\* default analysis.
parseSmartInbox(text) ==
    LET result == JSONparse(OrEmptyObject(text))
    IN IF result.threw THEN Value("default", << >>) ELSE result

ParseSteps == {"safeParseAgentJson", "analyzeActionItems", "getSmartInboxAnalysis"}

\* The completion as the provider writes it: bare, or wrapped.
Completion(text) ==
    /\ Len(text) <= MaxText
    /\ call' = [fn |-> "completion", arg |-> text]
    /\ ret' = << >>
    /\ UNCHANGED << webhookVars, tableVars, requestVars >>

Fence ==
    /\ Len(call.arg) < MaxText
    /\ \E open \in {<< "fence" >>, << "fence", "n" >>, << "fence", "json", "n" >>},
          close \in {<< "fence" >>, << "n", "fence" >>, << "n", "fence", "n" >>} :
         Completion(open \o call.arg \o close)

Surround ==
    \E before \in {<< >>, << "w" >>, << "w", "n" >>},
       after \in {<< >>, << "w" >>} :
        /\ before \o after # << >>
        /\ Completion(before \o call.arg \o after)

Encode ==
    /\ \A i \in DOMAIN call.arg : call.arg[i] \notin Escaped
    /\ Completion(<< "q" >> \o [i \in DOMAIN call.arg |-> escapePiece(call.arg[i])]
                  \o << "q" >>)

Truncate ==
    /\ call.arg # << >>
    /\ Completion(SubSeq(call.arg, 1, Len(call.arg) - 1))

\* The parse step of a caller runs on the completion.
Parse ==
    /\ call.fn = "completion"
    /\ \E fn \in ParseSteps :
         /\ call' = [fn |-> fn, arg |-> call.arg]
         /\ ret' = << CASE fn = "safeParseAgentJson" -> safeParseAgentJson(call.arg)
                        [] fn = "analyzeActionItems" -> parseActionItems(call.arg)
                        [] OTHER -> parseSmartInbox(call.arg) >>
    /\ UNCHANGED << webhookVars, tableVars, requestVars >>

NextParse ==
    \/ Fence
    \/ Surround
    \/ Encode
    \/ Truncate
    \/ Parse

InitParse ==
    /\ WebhookIdle
    /\ RequestsIdle
    /\ TablesIdle
    /\ call \in {[fn |-> "completion", arg |-> text] :
                    text \in {<< "{", "}" >>, << "{", "k", "}" >>,
                              << "{", "n", "k", "n", "}" >>}}
    /\ ret = << >>

SpecParse == InitParse /\ [][NextParse]_vars

\* ==================================================== the bodies of a message
\* extractBodies (controllers/webhooks.js, lines 154-180) on the payload of a
\* message.  A part has a mimeType ("" when it has none), body.data (a
\* base64url string, kept as its groups of four characters; << >> when it has
\* none) and parts (<< >> for a part without children: the provider leaves the
\* field out, and never sends an empty list).
MaxParts == 3      \* parts of a payload

Part(mimeType, data, parts) == [mimeType |-> mimeType, data |-> data, parts |-> parts]

MimeTypes == {"", "text/plain", "text/html", "multipart/alternative"}
Datas == {<< >>, << "Pz8_" >>, << "Pj4-", "SGk=" >>}
Leaves == {Part(m, d, << >>) : m \in MimeTypes, d \in Datas}

\* decodeBase64Url, lines 101-105: '' without data; - becomes +, _ becomes /,
\* and the standard base64 string is decoded.
standardBase64(group) ==
    CASE group = "Pz8_" -> "Pz8/" [] group = "Pj4-" -> "Pj4+" [] OTHER -> group
base64(group) ==
    CASE group = "SGk=" -> "Hi" [] group = "Pz8/" -> "???" [] group = "Pj4+" -> ">>>"
      [] OTHER -> "?"
decodeBase64Url(data) == [i \in DOMAIN data |-> base64(standardBase64(data[i]))]

\* text += decoded
replaced(body, decoded) == decoded
appended(body, decoded) == body \o decoded

\* walk(part), lines 158-176, on the text and html gathered so far.
RECURSIVE walk(_, _), forEachWalk(_, _)
walk(part, bodies) ==
    LET typed == IF part.data # << >> /\ part.mimeType = "text/plain"
                 THEN [bodies EXCEPT !.text = appended(@, decodeBase64Url(part.data))]
                 ELSE IF part.data # << >> /\ part.mimeType = "text/html"
                 THEN [bodies EXCEPT !.html = appended(@, decodeBase64Url(part.data))]
                 ELSE bodies
        bare == IF part.parts = << >> /\ part.data # << >> /\ part.mimeType = ""
                THEN [typed EXCEPT !.text = appended(@, decodeBase64Url(part.data))]
                ELSE typed
    IN forEachWalk(part.parts, bare)
forEachWalk(parts, bodies) ==
    IF parts = << >> THEN bodies
    ELSE forEachWalk(Tail(parts), walk(Head(parts), bodies))

\* x || null of a string.
NoBody == [t |-> "null", v |-> << >>]
OrNull(body) == IF body = << >> THEN NoBody ELSE [t |-> "string", v |-> body]

\* Lines 154-180.
extractBodies(payload) ==
    LET bodies == walk(payload, [text |-> << >>, html |-> << >>])
    IN [text |-> OrNull(bodies.text), html |-> OrNull(bodies.html)]

RECURSIVE CountParts(_), CountAll(_)
CountParts(part) == 1 + CountAll(part.parts)
CountAll(parts) == IF parts = << >> THEN 0 ELSE CountParts(Head(parts)) + CountAll(Tail(parts))

Payload(part) ==
    /\ CountParts(part) <= MaxParts
    /\ call' = [fn |-> "payload", arg |-> << part >>]
    /\ ret' = << >>
    /\ UNCHANGED << webhookVars, tableVars, requestVars >>

\* The message is one part of a larger one.
Contain ==
    /\ Len(call.arg) = 1
    /\ \E m \in {"", "text/plain", "multipart/alternative"},
          d \in {<< >>, << "SGk=" >>}, leaf \in Leaves :
         \/ Payload(Part(m, d, call.arg))
         \/ Payload(Part(m, d, << leaf >> \o call.arg))

\* The message has one more part.
AddPart ==
    /\ Len(call.arg) = 1
    /\ call.arg[1].parts # << >>
    /\ \E leaf \in Leaves :
         Payload([call.arg[1] EXCEPT !.parts = @ \o << leaf >>])

extractBodiesStep ==
    /\ call.fn = "payload"
    /\ call' = [fn |-> "extractBodies", arg |-> call.arg]
    /\ ret' = << extractBodies(call.arg[1]) >>
    /\ UNCHANGED << webhookVars, tableVars, requestVars >>

NextBodies ==
    \/ Contain
    \/ AddPart
    \/ extractBodiesStep

InitBodies ==
    /\ WebhookIdle
    /\ RequestsIdle
    /\ TablesIdle
    /\ call \in {[fn |-> "payload", arg |-> << leaf >>] : leaf \in Leaves}
    /\ ret = << >>

SpecBodies == InitBodies /\ [][NextBodies]_vars

\* ==================================================== the time of a meeting
\* createMeetingEvent (calendarService, part_007 lines 151-218).  Instants are
\* minutes of UTC, counted from the midnight that begins day 0; a time zone is
\* the minutes the server's clock is ahead of UTC.
MaxDay == 2        \* the dates a meeting may name: day 1..MaxDay

MinutesOfDay == 24 * 60
NineOClock == 9 * 60
TimeZones == {-300, 0, 120}

\* meetingData.date ("YYYY-MM-DD", kept as its day), meetingData.time
\* ("HH:MM", kept as its minute of the day) and meetingData.duration: a
\* number, kept in tenths, followed by a word.
Dates == {Null} \cup {Num(d) : d \in 1..MaxDay}
Times24 == {Null, Num(14 * 60)}
Duration(tenths, word) == [t |-> "string", v |-> tenths, word |-> word]
NoDuration == [t |-> "null", v |-> 0, word |-> ""]
Durations ==
    {NoDuration} \cup
    {Duration(n, w) : n \in {15, 20, 300},
                      w \in {"hours", "hr", "minutes", "min", "h", ""}}

\* new Date("YYYY-MM-DD"): the midnight of UTC that begins the day.
DateOnly(day) == day * MinutesOfDay
\* new Date("YYYY-MM-DDTHH:MM:00"): that time on the server's clock.
DateTimeLocal(day, minute, tz) == day * MinutesOfDay + minute - tz

\* d.setHours(9, 0, 0, 0): nine o'clock, on the server's clock, of the day the
\* instant falls on by the server's clock.
setHours9(instant, tz) ==
    ((instant + tz) \div MinutesOfDay) * MinutesOfDay + NineOClock - tz

\* duration.match(/(\d+\.?\d*)\s*(hour|minute|hr|min)/i): the unit matched, or
\* "" without a match.
durationMatch(duration) ==
    CASE duration.word \in {"hours", "hour"} -> "hour"
      [] duration.word = "hr" -> "hr"
      [] duration.word \in {"minutes", "minute"} -> "minute"
      [] duration.word = "min" -> "min"
      [] OTHER -> ""

\* Lines 168-189: the minutes added to the start (setMinutes keeps the whole
\* minutes of its argument).
addedMinutes(duration) ==
    IF duration = NoDuration THEN 60
    ELSE IF durationMatch(duration) = "" THEN 60
    ELSE IF durationMatch(duration) \in {"hour", "hr"}
         THEN (duration.v * 60) \div 10
         ELSE duration.v \div 10

\* Lines 157-166 and 191-202 of createMeetingEvent: the event that is inserted,
\* or the error thrown without a date.
createMeetingEvent(date, time, duration, tz) ==
    IF date = Null
    THEN [threw |-> TRUE, start |-> 0, end |-> 0, tz |-> tz]
    ELSE LET startDateTime ==
                 IF time # Null THEN DateTimeLocal(date.v, time.v, tz)
                 ELSE setHours9(DateOnly(date.v), tz)
         IN [threw |-> FALSE, start |-> startDateTime,
             end |-> startDateTime + addedMinutes(duration), tz |-> tz]

createMeetingEventStep ==
    /\ call.fn = "meetingData"
    /\ call' = [fn |-> "createMeetingEvent", arg |-> call.arg]
    /\ \E tz \in TimeZones :
         ret' = << createMeetingEvent(call.arg[1], call.arg[2], call.arg[3], tz) >>
    /\ UNCHANGED << webhookVars, tableVars, requestVars >>

NextMeeting == createMeetingEventStep

InitMeeting ==
    /\ WebhookIdle
    /\ RequestsIdle
    /\ TablesIdle
    /\ call \in {[fn |-> "meetingData", arg |-> << date, time, duration >>] :
                    date \in Dates, time \in Times24, duration \in Durations}
    /\ ret = << >>

SpecMeeting == InitMeeting /\ [][NextMeeting]_vars

\* ==================================================== the automatic reply
\* sendAutoReply (services/gmailPubSub.js, lines 212-283).  A header is a name
\* and a value; the value of Message-ID is one message id and the value of
\* References is a list of them, separated by spaces.
MaxReferences == 2     \* message ids in the References of the original

Header(name, value) == [name |-> name, value |-> value]
MessageIds == {"<m1@x.com>", "<m2@x.com>"}
ThreadIds == {"thread1", "thread2"}

\* The names under which a mail agent writes the Message-ID field; header
\* names are case-insensitive, and the provider returns them as written.
MessageIdNames == {"Message-ID", "Message-Id"}

RECURSIVE Earlier(_)
Earlier(n) == IF n = 0 THEN << >> ELSE Earlier(n - 1) \o << "<r@x.com>" >>
ReferencesOf == {Earlier(n) : n \in 0..MaxReferences}

\* users.messages.get(format: 'metadata', metadataHeaders: ['Message-ID',
\* 'References']): the thread of the original and these headers of it.
Originals ==
    {[threadId |-> t,
      headers |-> (IF refs = << >> THEN << >> ELSE << Header("References", refs) >>)
                  \o mid] :
        t \in ThreadIds, refs \in ReferencesOf,
        mid \in {<< >>} \cup {<< Header(n, << m >>) >> : n \in MessageIdNames,
                                                       m \in MessageIds}}

\* headers.find(h => h.name === name)?.value, << >> when no header has the name.
headerValue(headers, name) ==
    IF \E i \in DOMAIN headers : headers[i].name = name
    THEN headers[CHOOSE i \in DOMAIN headers :
                    /\ headers[i].name = name
                    /\ \A j \in DOMAIN headers : headers[j].name = name => i <= j].value
    ELSE << >>

\* Lines 238-251: the lines of the reply up to the MIME headers.
emailLines(to, subject, messageId, references) ==
    << Header("To", << to >>), Header("Subject", << subject >>) >> \o
    (IF messageId # << >>
     THEN << Header("In-Reply-To", messageId),
             Header("References", references \o messageId) >>
     ELSE << >>)

\* Lines 212-283: the request given to users.messages.send.
sendAutoReply(original, to, subject) ==
    [threadId |-> original.threadId,
     headers |-> emailLines(to, subject,
                            headerValue(original.headers, "Message-ID"),
                            headerValue(original.headers, "References"))]

NotSent == [threadId |-> "", headers |-> << >>]

sendAutoReplyStep ==
    /\ call.fn = "original"
    /\ call' = [fn |-> "sendAutoReply", arg |-> call.arg]
    /\ \E to \in {"boss@x.com", "peer@x.com"} :
         \/ ret' = << [threw |-> FALSE, sent |-> sendAutoReply(call.arg[1], to, "Re") ] >>
         \/ ret' = << [threw |-> TRUE, sent |-> NotSent] >>     \* get or send rejects
    /\ UNCHANGED << webhookVars, tableVars, requestVars >>

NextReply == sendAutoReplyStep

InitReply ==
    /\ WebhookIdle
    /\ RequestsIdle
    /\ TablesIdle
    /\ call \in {[fn |-> "original", arg |-> << original >>] : original \in Originals}
    /\ ret = << >>

SpecReply == InitReply /\ [][NextReply]_vars

\* ==================================================== the external calls
\* The calls an action makes on the outside: generateContent inside withRetry
\* (aiService, part_022 lines 9-37), events.insert (calendarService) and
\* users.messages.send (sendAutoReply).  ret is the list of the attempts made,
\* each with the error it met and what the code did then.
DefaultRetries == 3       \* withRetry(operation, retries = 3, backoff = 1000)

ExternalCalls == {"generateContent", "events.insert", "messages.send"}
Errors == {"500", "503", "fetch failed", "429", "400"}

Attempt(error, then) == [error |-> error, then |-> then]

\* Line 18: RESOURCE_EXHAUSTED, quota, or code 429.
isQuotaExceeded(error) == error = "429"

\* Line 27: a server error or a network error.
isRetryableAlways(error) == TRUE
isRetryable(error) == error \in {"500", "503", "fetch failed"}

\* What is left to do of a call: it has not been attempted, or its last
\* attempt is to be made again.
Pending == IF ret = << >> THEN TRUE ELSE ret[Len(ret)].then = "retry"

\* One turn of withRetry around generateContent: lines 10-36.
withRetry ==
    /\ call.fn = "generateContent"
    /\ Pending
    /\ LET retries == call.arg[1]
       IN \E error \in Errors \cup {"none"} :
            IF error = "none"
            THEN /\ ret' = Append(ret, Attempt(error, "return"))
                 /\ UNCHANGED call
            ELSE IF isQuotaExceeded(error)
            THEN /\ ret' = Append(ret, Attempt(error, "throw QUOTA_EXHAUSTED"))
                 /\ UNCHANGED call
            ELSE IF retries > 0 /\ isRetryable(error)
            THEN /\ ret' = Append(ret, Attempt(error, "retry"))
                 /\ call' = [call EXCEPT !.arg = << retries - 1 >>]
            ELSE /\ ret' = Append(ret, Attempt(error, "throw"))
                 /\ UNCHANGED call
    /\ UNCHANGED << webhookVars, tableVars, requestVars >>

\* calendar.events.insert in createMeetingEvent (part_007 lines 211-216): one
\* awaited call, whose rejection leaves the function.
insertEvent ==
    /\ call.fn = "events.insert"
    /\ Pending
    /\ \E error \in Errors \cup {"none"} :
         ret' = Append(ret, Attempt(error, IF error = "none" THEN "return" ELSE "throw"))
    /\ UNCHANGED << call, webhookVars, tableVars, requestVars >>

\* gmail.users.messages.send in sendAutoReply (gmailPubSub.js lines 271-282):
\* one awaited call; the catch block logs and throws the error again.
sendMessage ==
    /\ call.fn = "messages.send"
    /\ Pending
    /\ \E error \in Errors \cup {"none"} :
         ret' = Append(ret, Attempt(error, IF error = "none" THEN "return" ELSE "throw"))
    /\ UNCHANGED << call, webhookVars, tableVars, requestVars >>

NextRetry ==
    \/ withRetry
    \/ insertEvent
    \/ sendMessage

InitRetry ==
    /\ WebhookIdle
    /\ RequestsIdle
    /\ TablesIdle
    /\ call \in {[fn |-> fn, arg |-> << DefaultRetries >>] : fn \in ExternalCalls}
    /\ ret = << >>

SpecRetry == InitRetry /\ [][NextRetry]_vars

\* ========================================================= the bots controller
\* bots rows, and the tasks and calendar_tasks rows that carry the nullable
\* botId column of migration 20260103115556 (isCreatedByBot defaults to false).
MaxBotTasks == 2

BotIds == {"b1", "b2"}
NullId == "null"
NoParam == "undefined"

BotRow(id, userId) == [id |-> id, userId |-> userId]
BotRows == {BotRow("b1", "u1"), BotRow("b2", "u2")}

BotTask(userId, botId) ==
    [userId |-> userId, botId |-> botId, isCreatedByBot |-> botId # NullId,
     priority |-> "medium"]

\* The rows the foreign key admits: botId is null or the id of a bots row.
BotTasks == {BotTask(u, NullId) : u \in Accounts} \cup {BotTask(b.userId, b.id) : b \in BotRows}

\* What a request answered: the handler, req.user, the status and the id.
Response(op, caller, status, id) == [op |-> op, user |-> caller, status |-> status, id |-> id]
NoResponse == Response("none", NoAuth, 0, NullId)

\* FOREIGN KEY ("botId") REFERENCES "bots"("id") ON DELETE SET NULL: deleting
\* the bots row `id` nulls the botId of the rows that reference it.
onDeleteCascade(rows, id) == SelectSeq(rows, LAMBDA row : row.botId # id)
onDeleteSetNull(rows, id) ==
    [i \in DOMAIN rows |->
        IF rows[i].botId = id THEN [rows[i] EXCEPT !.botId = NullId] ELSE rows[i]]

\* prisma.bots.findFirst({ where: { id, userId } })
existingBot(table, id, userId) == {b \in table : b.id = id /\ b.userId = userId}

\* deleteBot (DELETE /api/bots/:id): 401 without req.user, 400 without an id,
\* 404 when the caller owns no such bot, 500 when a query rejects; else the
\* row is deleted and the id answered.
deleteBot ==
    \E caller \in Callers, id \in BotIds \cup {NoParam}, rejects \in BOOLEAN :
        /\ client' = client
        /\ IF caller = NoAuth
           THEN /\ procs' = [procs EXCEPT !.req = Response("deleteBot", caller, 401, id)]
                /\ db' = db
           ELSE IF id = NoParam
           THEN /\ procs' = [procs EXCEPT !.req = Response("deleteBot", caller, 400, id)]
                /\ db' = db
           ELSE IF rejects
           THEN /\ procs' = [procs EXCEPT !.req = Response("deleteBot", caller, 500, id)]
                /\ db' = db
           ELSE IF existingBot(db.bots, id, caller) = {}
           THEN /\ procs' = [procs EXCEPT !.req = Response("deleteBot", caller, 404, id)]
                /\ db' = db
           ELSE /\ procs' = [procs EXCEPT !.req = Response("deleteBot", caller, 200, id)]
                /\ db' = [db EXCEPT
                            !.bots = {b \in db.bots : b.id # id},
                            !.tasks = onDeleteSetNull(db.tasks, id),
                            !.calendarTasks = onDeleteSetNull(db.calendarTasks, id)]
        /\ UNCHANGED << webhookVars, tableVars, helperVars >>

NextDeleteBot == deleteBot

InitDeleteBot ==
    /\ WebhookIdle
    /\ TablesIdle
    /\ HelpersIdle
    /\ procs = [req |-> NoResponse]
    /\ client = NoCredentials
    /\ \E tk \in [1..MaxBotTasks -> BotTasks], cal \in [1..MaxBotTasks -> BotTasks] :
          db = [EmptyDb EXCEPT !.bots = BotRows, !.tasks = tk, !.calendarTasks = cal]

SpecDeleteBot == InitDeleteBot /\ [][NextDeleteBot]_vars

\* ================================================== overlapping deliveries
\* Two invocations of handleGmailWebhook in flight at once: Express starts a
\* handler per request, and each await of the handler lets the other run.
Overlapping == {"h1", "h2"}

\* A message from the sender the user's bot lists arrives.
ArriveListed ==
    /\ Arrive
    /\ mailbox'[Len(mailbox')].addr = "boss@x.com"

\* An invocation handles one delivery, of a notification for the user.
Overlap(h) ==
    /\ pc[h] = "idle"
    /\ Receive(h)
    /\ env'[h].kind = "valid"
    /\ env'[h].emailAddress \in Users

\* The awaited calls of the two invocations resolve in any order; the
\* rejections are those of one invocation alone and are left out here.
Found(h) ==
    /\ FindUser(h)
    /\ pc'[h] = "list"

Listed(h) ==
    /\ ListHistory(h)
    /\ pc'[h] # "done"
    /\ \A k \in DOMAIN batch'[h] : batch'[h][k].payload

Processed(h) ==
    /\ ProcessOne(h)
    /\ last'[h].threw = {}
    /\ last'[h].task

Updated(h) ==
    /\ UpdateCursor(h)
    /\ outcome'[h] = "ok"

NextOverlap ==
    \/ ArriveListed
    \/ \E u \in Users : setupGmailWatch(u)
    \/ \E h \in Overlapping : Overlap(h)
    \/ \E h \in Overlapping : Found(h)
    \/ \E h \in Overlapping : Listed(h)
    \/ \E h \in Overlapping : Processed(h)
    \/ \E h \in Overlapping : Updated(h)

\* The user's bot is active with every action enabled.
InitOverlap ==
    /\ InitFor({<< AllOn >>}, Overlapping)
    /\ TablesIdle
    /\ HelpersIdle
    /\ RequestsIdle

SpecOverlap == InitOverlap /\ [][NextOverlap]_vars

\* ============================================ overlapping runs of the job
\* cron.schedule('*/1 * * * *', async () => ...) starts the callback at every
\* tick whether or not the previous run has returned; a run gives way to the
\* other at each of its awaits.
Runs == {"t1", "t2"}

\* A run's locals: where it is, its currentDate, the rows its findMany
\* queries returned and the loop's position.  The tables the queries read do
\* not change while the job runs, so both results are fixed at the tick.
Run(at, now, items, i) == [pc |-> at, currentDate |-> now, items |-> items, i |-> i]
NoRun == Run("idle", 0, << >>, 1)

\* The run goes on with the candidate after i, or returns after the last.
nextCandidate(run) ==
    [run EXCEPT !.i = @ + 1,
                !.pc = IF run.i + 1 > Len(run.items) THEN "done" ELSE "check"]

\* Lines 11-27: the tick reads the clock and awaits the first findMany.
Tick(p) ==
    /\ procs[p].pc \in {"idle", "done"}
    /\ \E now \in Clock :
          /\ now >= currentDate
          /\ currentDate' = now
          /\ LET items == Candidates(calendarTasks, tasks)
             IN procs' = [procs EXCEPT ![p] =
                            Run(IF Len(items) = 0 THEN "done" ELSE "check", now, items, 1)]
    /\ UNCHANGED << notifications, calendarTasks, tasks, templets, created, answer >>
    /\ UNCHANGED << webhookVars, helperVars, client, db >>

\* Lines 29-43 and 77-93: the window test of the candidate and, within the
\* window, the awaited findFirst; a query that rejects ends the run.
Check(p) ==
    /\ procs[p].pc = "check"
    /\ LET run == procs[p]
           it == run.items[run.i]
       IN \/ procs' = [procs EXCEPT ![p].pc = "done"]
          \/ procs' = [procs EXCEPT ![p] =
                IF /\ it.found
                   /\ inWindow(it.due - run.currentDate)
                   /\ ~existingNotification(notifications, it.taskId, it.type)
                THEN [run EXCEPT !.pc = "create"]
                ELSE nextCandidate(run)]
    /\ UNCHANGED << tableVars, webhookVars, helperVars, client, db >>

\* Lines 44-57 and 94-107: the awaited create.
Create(p) ==
    /\ procs[p].pc = "create"
    /\ LET run == procs[p]
           it == run.items[run.i]
       IN /\ notifications' = Append(notifications,
                                     Notification(it.type, it.taskId, it.userId))
          /\ procs' = [procs EXCEPT ![p] = nextCandidate(run)]
    /\ UNCHANGED << calendarTasks, tasks, currentDate, templets, created, answer >>
    /\ UNCHANGED << webhookVars, helperVars, client, db >>

NextTicks ==
    \/ \E p \in Runs : Tick(p)
    \/ \E p \in Runs : Check(p)
    \/ \E p \in Runs : Create(p)

InitTicks ==
    /\ WebhookIdle
    /\ HelpersIdle
    /\ notifications = << >>
    /\ calendarTasks \in {<< CalendarTask("u1", 3 * HalfHour, st, Null) >> :
                             st \in {"pending", "completed"}}
    /\ tasks \in {<< Task("u2", Num(2 * HalfHour), FALSE) >>,
                  << Task("u2", Null, FALSE) >>}
    /\ currentDate = 0
    /\ templets = {}
    /\ created = 0
    /\ answer = NoAnswer
    /\ procs = [p \in Runs |-> NoRun]
    /\ client = NoCredentials
    /\ db = EmptyDb

SpecTicks == InitTicks /\ [][NextTicks]_vars

\* ======================================================= the OAuth callback
\* Credentials, tokens and emails are named after the Google account they
\* belong to; the users table is keyed by email (upsert where: { email }).
Sessions == {"c1", "c2"}

\* A callback's locals: where it is, the account its code was issued for,
\* its tokens, the credentials its userinfo request carries, the email the
\* request answered, the status sent and the email the JWT is signed for.
Callback(at, code, tokens, auth, email, status, jwt) ==
    [pc |-> at, code |-> code, tokens |-> tokens, auth |-> auth, email |-> email,
     status |-> status, jwt |-> jwt]
NoCallback == Callback("idle", NoParam, NoCredentials, NoCredentials, NoParam, 0, NoParam)

\* Lines 67-71: the catch block redirects without a token.
callbackCatch(run) == [run EXCEPT !.pc = "done", !.status = 302, !.jwt = NoParam]

\* Faulty variant: the credentials are read from the shared client when the
\* request is sent, after the handler has yielded.
authWhenSent(atCall, shared) == shared

\* Line 33: userinfo.get({ auth: oauth2Client }) carries the credentials the
\* client holds when the call is made.
authWhenCalled(atCall, shared) == atCall

\* prisma.user.upsert({ where: { email }, update: {..tokens}, create: {..} })
upsert(users, email, tokens) ==
    {row \in users : row.email # email} \cup {[email |-> email, tokens |-> tokens]}

\* Lines 24-28: 400 without a code, else the await of getToken(code).
callbackBegin(p) ==
    /\ procs[p].pc = "idle"
    /\ \E code \in Accounts \cup {NoParam} :
          procs' = [procs EXCEPT ![p] =
                      IF code = NoParam
                      THEN [NoCallback EXCEPT !.pc = "done", !.status = 400]
                      ELSE [NoCallback EXCEPT !.pc = "getToken", !.code = code]]
    /\ UNCHANGED << client, db >>
    /\ UNCHANGED << webhookVars, tableVars, helperVars >>

\* Lines 28-33: getToken resolves with the tokens of the code's account; they
\* are set on the shared client and the userinfo request is made.
callbackTokens(p) ==
    /\ procs[p].pc = "getToken"
    /\ \/ /\ procs' = [procs EXCEPT ![p] = callbackCatch(@)]
          /\ UNCHANGED client
       \/ /\ client' = procs[p].code
          /\ procs' = [procs EXCEPT ![p].pc = "userinfo",
                                    ![p].tokens = procs[p].code,
                                    ![p].auth = procs[p].code]
    /\ UNCHANGED db
    /\ UNCHANGED << webhookVars, tableVars, helperVars >>

\* Lines 33-45: the userinfo request answers the email of the account whose
\* credentials it carried, or no email; then the await of the upsert.
callbackUserinfo(p) ==
    /\ procs[p].pc = "userinfo"
    /\ \/ procs' = [procs EXCEPT ![p] = callbackCatch(@)]
       \/ procs' = [procs EXCEPT ![p].pc = "done", ![p].status = 400]
       \/ procs' = [procs EXCEPT ![p].pc = "upsert",
                                 ![p].email = authWhenCalled(procs[p].auth, client)]
    /\ UNCHANGED << client, db >>
    /\ UNCHANGED << webhookVars, tableVars, helperVars >>

\* Lines 45-66: the upsert resolves, the JWT is signed for the email and the
\* caller is redirected with it.
callbackUpsert(p) ==
    /\ procs[p].pc = "upsert"
    /\ \/ /\ procs' = [procs EXCEPT ![p] = callbackCatch(@)]
          /\ UNCHANGED db
       \/ /\ db' = [db EXCEPT !.users = upsert(@, procs[p].email, procs[p].tokens)]
          /\ procs' = [procs EXCEPT ![p].pc = "done", ![p].status = 302,
                                    ![p].jwt = procs[p].email]
    /\ UNCHANGED client
    /\ UNCHANGED << webhookVars, tableVars, helperVars >>

\* The caller comes back with another code.
callbackAgain(p) ==
    /\ procs[p].pc = "done"
    /\ procs' = [procs EXCEPT ![p] = NoCallback]
    /\ UNCHANGED << client, db >>
    /\ UNCHANGED << webhookVars, tableVars, helperVars >>

NextCallbacks ==
    \/ \E p \in Sessions : callbackBegin(p)
    \/ \E p \in Sessions : callbackTokens(p)
    \/ \E p \in Sessions : callbackUserinfo(p)
    \/ \E p \in Sessions : callbackUpsert(p)
    \/ \E p \in Sessions : callbackAgain(p)

InitCallbacks ==
    /\ WebhookIdle
    /\ TablesIdle
    /\ HelpersIdle
    /\ procs = [p \in Sessions |-> NoCallback]
    /\ client = NoCredentials
    /\ db = EmptyDb

SpecCallbacks == InitCallbacks /\ [][NextCallbacks]_vars

\* ==================================================== the Gmail controller
\* Requests served at once; each await of a handler lets the other run.
Requests == {"r1", "r2"}

\* A call to the mailbox provider: the method and the credentials the client
\* passed as auth holds when the call is made.
ProviderCall(fn, auth) == [fn |-> fn, auth |-> auth]

\* A request's locals: where it is, req.user, the provider calls made while
\* serving it, and the status answered.
Request(at, caller, calls, status) ==
    [pc |-> at, user |-> caller, calls |-> calls, status |-> status]
NoRequest == Request("idle", NoAuth, << >>, 0)

\* getEmails, lines 127-163: 401 without req.user, 400 without tokens; the
\* user's tokens are set on the shared client and messages.list is awaited.
getEmailsBegin(p) ==
    /\ procs[p].pc = "idle"
    /\ \E caller \in Callers, hasTokens \in BOOLEAN :
          IF caller = NoAuth
          THEN /\ procs' = [procs EXCEPT ![p] = Request("done", caller, << >>, 401)]
               /\ UNCHANGED client
          ELSE IF ~hasTokens
          THEN /\ procs' = [procs EXCEPT ![p] = Request("done", caller, << >>, 400)]
               /\ UNCHANGED client
          ELSE /\ client' = caller
               /\ procs' = [procs EXCEPT ![p] =
                              Request("list", caller,
                                      << ProviderCall("messages.list", caller) >>, 0)]
    /\ UNCHANGED db
    /\ UNCHANGED << webhookVars, tableVars, helperVars >>

\* Lines 158-185: the listing resolves; with no message the request is
\* answered, else messages.get is called for every message of the chunk
\* (maxResults and the chunk size are both 10) through the shared client.
getEmailsListed(p) ==
    /\ procs[p].pc = "list"
    /\ \/ procs' = [procs EXCEPT ![p].pc = "done", ![p].status = 500]
       \/ procs' = [procs EXCEPT ![p].pc = "done", ![p].status = 200]
       \/ procs' = [procs EXCEPT ![p].pc = "get",
                      ![p].calls = Append(@, ProviderCall("messages.get", client))]
    /\ UNCHANGED << client, db >>
    /\ UNCHANGED << webhookVars, tableVars, helperVars >>

\* Lines 181-213: the messages resolve (a failed one is answered as an
\* error item); attachments.get is called for their attachments, if any.
getEmailsFetched(p) ==
    /\ procs[p].pc = "get"
    /\ \/ procs' = [procs EXCEPT ![p].pc = "done", ![p].status = 200]
       \/ procs' = [procs EXCEPT ![p].pc = "attachments",
                      ![p].calls = Append(@, ProviderCall("attachments.get", client))]
    /\ UNCHANGED << client, db >>
    /\ UNCHANGED << webhookVars, tableVars, helperVars >>

\* Lines 214-269: the attachments resolve and the request is answered.
getEmailsAnswered(p) ==
    /\ procs[p].pc = "attachments"
    /\ procs' = [procs EXCEPT ![p].pc = "done", ![p].status = 200]
    /\ UNCHANGED << client, db >>
    /\ UNCHANGED << webhookVars, tableVars, helperVars >>

\* getGmailInstance(userId): the services build a client of their own from
\* the user's row and call the provider through it.
getGmailInstance(p) ==
    /\ procs[p].pc = "idle"
    /\ \E userId \in Accounts :
          procs' = [procs EXCEPT ![p] =
                      Request("done", userId,
                              << ProviderCall("users.watch", userId) >>, 200)]
    /\ UNCHANGED << client, db >>
    /\ UNCHANGED << webhookVars, tableVars, helperVars >>

\* The connection serves its next request.
nextRequest(p) ==
    /\ procs[p].pc = "done"
    /\ procs' = [procs EXCEPT ![p] = NoRequest]
    /\ UNCHANGED << client, db >>
    /\ UNCHANGED << webhookVars, tableVars, helperVars >>

NextRequests ==
    \/ \E p \in Requests : getEmailsBegin(p)
    \/ \E p \in Requests : getEmailsListed(p)
    \/ \E p \in Requests : getEmailsFetched(p)
    \/ \E p \in Requests : getEmailsAnswered(p)
    \/ \E p \in Requests : getGmailInstance(p)
    \/ \E p \in Requests : nextRequest(p)

InitRequests ==
    /\ WebhookIdle
    /\ TablesIdle
    /\ HelpersIdle
    /\ procs = [p \in Requests |-> NoRequest]
    /\ client = NoCredentials
    /\ db = EmptyDb

SpecRequests == InitRequests /\ [][NextRequests]_vars

\* ================================================ who writes the cursor
\* Faulty variant: stopping the watch clears the stored historyId.
clearedHistoryId(gmailHistoryId) == Null

\* stopGmailWatch (gmailPubSub.js lines 82-94) makes no prisma call: the
\* user's gmailHistoryId is what it was.
stoppedHistoryId(gmailHistoryId) == gmailHistoryId

\* stopGmailWatch(userId): users.stop is awaited; a rejection is thrown again.
stopGmailWatch(u) ==
    /\ \E result \in {Null, Thrown} : Called("stopGmailWatch", u, result)
    /\ cursor' = [cursor EXCEPT ![u] = stoppedHistoryId(@)]
    /\ UNCHANGED << bots, mailbox, delivered, handlerVars, storeVars >>
    /\ UNCHANGED << tableVars, requestVars >>

\* The operations that read or write a User row besides the delivery: the
\* login of the account u1, a run of the job at the clock of the latest run,
\* and a bots request of u1 for a bot it does not have.
loginStep ==
    \/ callbackBegin("c1") /\ procs'.c1.code # "u2"
    \/ callbackTokens("c1")
    \/ callbackUserinfo("c1")
    \/ callbackUpsert("c1")

jobRun ==
    /\ startNotificationJob
    /\ currentDate' = currentDate

botsRequest ==
    /\ deleteBot
    /\ procs'.req = Response("deleteBot", "u1", 404, "b1")

NextCursor ==
    \/ ArriveListed
    \/ \E u \in Users : setupGmailWatch(u)
    \/ \E u \in Users : stopGmailWatch(u)
    \/ \E h \in Handlers : Overlap(h)
    \/ \E h \in Handlers : FindUser(h)
    \/ \E h \in Handlers : ListHistory(h)
    \/ \E h \in Handlers : Processed(h)
    \/ \E h \in Handlers : UpdateCursor(h)
    \/ loginStep
    \/ jobRun
    \/ botsRequest

InitCursor ==
    /\ InitWith({<< AllOn >>})
    /\ TablesIdle
    /\ HelpersIdle
    /\ procs = [req |-> NoResponse, c1 |-> NoCallback]
    /\ client = NoCredentials
    /\ db = EmptyDb

SpecCursor == InitCursor /\ [][NextCursor]_vars

\* ===================================================== the next delivery
\* Deliveries one after the other, each by an invocation of its own, so that
\* what the earlier one did is still there when the later one runs; the
\* awaited lookup, listing and update may reject.
Redeliver(h) ==
    /\ \A g \in Overlapping \ {h} : pc[g] \in {"idle", "done"}
    /\ Overlap(h)

NextRedelivery ==
    \/ ArriveListed
    \/ \E u \in Users : setupGmailWatch(u)
    \/ \E h \in Overlapping : Redeliver(h)
    \/ \E h \in Overlapping : FindUser(h)
    \/ \E h \in Overlapping : ListHistory(h)
    \/ \E h \in Overlapping : Processed(h)
    \/ \E h \in Overlapping : UpdateCursor(h)

SpecRedelivery == InitOverlap /\ [][NextRedelivery]_vars

\* ========================================================= the AI summaries
\* ai_summarys rows (part_001): summary, priority, userId and the nullable
\* gmailId; the primary key is the row's id, here its position.
MaxSummaries == 2

GmailIds == {"m1", "m2"}
Undefined == [t |-> "undefined", v |-> 0]
NaN == [t |-> "NaN", v |-> 0]
NotANumber == [t |-> "text", v |-> 0]

\* req.body of saveGmailSummary: an empty summary or a text;
\* a priority that is missing, null, a number, a decimal string or a word.
Summaries == {"", "Please reply today"}
Priorities == {Undefined, Null, Num(1), Str(2), NotANumber}

\* parseInt(priority, 10)
parseInt(x) == IF x.t \in {"number", "string"} THEN Num(x.v) ELSE NaN

\* gmailId ?? null
OrNullId(id) == IF id = NoParam THEN NullId ELSE id

AiSummary(summary, priority, userId, gmailId) ==
    [summary |-> summary, priority |-> priority, userId |-> userId, gmailId |-> gmailId]

\* saveGmailSummary: 401 without req.user, 400 without summary or priority
\* or with a priority that is no integer, 500 when the create rejects; else
\* a row is created and answered with 201.
saveGmailSummary ==
    \E caller \in Callers, summary \in Summaries, priority \in Priorities,
       gmailId \in GmailIds \cup {NoParam}, rejects \in BOOLEAN :
        /\ Len(db.aiSummarys) < MaxSummaries
        /\ LET status ==
                  IF caller = NoAuth THEN 401
                  ELSE IF summary = "" \/ priority \in {Undefined, Null}
                  THEN 400
                  ELSE IF parseInt(priority) = NaN THEN 400
                  ELSE IF rejects THEN 500
                  ELSE 201
           IN /\ procs' = [procs EXCEPT
                             !.req = Response("saveGmailSummary", caller, status,
                                              OrNullId(gmailId)),
                             !.data = IF status = 201 THEN Len(db.aiSummarys) + 1 ELSE 0]
              /\ db' = IF status = 201
                       THEN [db EXCEPT !.aiSummarys =
                               Append(@, AiSummary(summary, parseInt(priority).v, caller,
                                                   OrNullId(gmailId)))]
                       ELSE db
        /\ UNCHANGED client
        /\ UNCHANGED << webhookVars, tableVars, helperVars >>

\* prisma.aiSummarys.findFirst({ where: { gmailId: id }, orderBy: { createdAt:
\* 'desc' } }): the newest row of the message, 0 for null.
lastAiSummary(table, id) ==
    LET rows == {i \in DOMAIN table : table[i].gmailId = id}
    IN IF rows = {} THEN 0 ELSE CHOOSE i \in rows : \A j \in rows : j <= i

\* getEmailById: 401 without req.user, 400 without tokens or id; the user's
\* tokens are set on the shared client and the message is fetched (a
\* rejection is answered 500); the answer carries the message's last summary.
getEmailById ==
    \E caller \in Callers, hasTokens \in BOOLEAN, id \in GmailIds \cup {NoParam},
       rejects \in BOOLEAN :
        LET status == IF caller = NoAuth THEN 401
                      ELSE IF ~hasTokens \/ id = NoParam THEN 400
                      ELSE IF rejects THEN 500
                      ELSE 200
        IN /\ procs' = [procs EXCEPT
                          !.req = Response("getEmailById", caller, status, OrNullId(id)),
                          !.data = IF status = 200 THEN lastAiSummary(db.aiSummarys, id)
                                   ELSE 0]
           /\ client' = IF status \in {200, 500} THEN caller ELSE client
           /\ UNCHANGED db
           /\ UNCHANGED << webhookVars, tableVars, helperVars >>

NextSummaries ==
    \/ saveGmailSummary
    \/ getEmailById

InitSummaries ==
    /\ WebhookIdle
    /\ TablesIdle
    /\ HelpersIdle
    /\ procs = [req |-> NoResponse, data |-> 0]
    /\ client = NoCredentials
    /\ db = EmptyDb

SpecSummaries == InitSummaries /\ [][NextSummaries]_vars

\* ========================================================= the task controller
\* tasks rows by id; a request may name an id no row has.
TaskIds == {"t1", "t2"}

TaskRow(userId, isDoneTask) == [userId |-> userId, isDoneTask |-> isDoneTask]
TaskRows == {TaskRow(u, d) : u \in Accounts, d \in BOOLEAN}

\* Faulty variant: the owner is not compared.
ownedByAnyone(existingTask, userId) == FALSE

\* Lines 68, 160 and 195: existingTask.userId !== user.id
notOwn(existingTask, userId) == existingTask.userId # userId

\* What the three handlers do before they act: 401 without req.user, 400
\* without an id, 500 when the lookup rejects, 404 when findUnique finds no
\* row, 403 when the row is another user's; 200 otherwise.
taskStatus(table, caller, id, rejects) ==
    IF caller = NoAuth THEN 401
    ELSE IF id = NoParam THEN 400
    ELSE IF rejects THEN 500
    ELSE IF id \notin DOMAIN table THEN 404
    ELSE IF notOwn(table[id], caller) THEN 403
    ELSE 200

\* editTask: the fields of the body that are not undefined are written.
editTask ==
    \E caller \in Callers, id \in TaskIds \cup {NoParam}, rejects \in BOOLEAN,
       isDoneTask \in {"undefined", "true", "false"} :
        LET status == taskStatus(db.tasks, caller, id, rejects)
        IN /\ procs' = [procs EXCEPT !.req = Response("editTask", caller, status, id)]
           /\ db' = IF status = 200 /\ isDoneTask # "undefined"
                    THEN [db EXCEPT !.tasks[id].isDoneTask = (isDoneTask = "true")]
                    ELSE db
           /\ UNCHANGED client
           /\ UNCHANGED << webhookVars, tableVars, helperVars >>

\* getTaskById: the row is answered.
getTaskById ==
    \E caller \in Callers, id \in TaskIds \cup {NoParam}, rejects \in BOOLEAN :
        /\ procs' = [procs EXCEPT !.req =
                       Response("getTaskById", caller,
                                taskStatus(db.tasks, caller, id, rejects), id)]
        /\ UNCHANGED << client, db >>
        /\ UNCHANGED << webhookVars, tableVars, helperVars >>

\* deleteTask: the row is deleted.
deleteTask ==
    \E caller \in Callers, id \in TaskIds \cup {NoParam}, rejects \in BOOLEAN :
        LET status == taskStatus(db.tasks, caller, id, rejects)
        IN /\ procs' = [procs EXCEPT !.req = Response("deleteTask", caller, status, id)]
           /\ db' = IF status = 200
                    THEN [db EXCEPT !.tasks = [t \in DOMAIN db.tasks \ {id} |-> db.tasks[t]]]
                    ELSE db
           /\ UNCHANGED client
           /\ UNCHANGED << webhookVars, tableVars, helperVars >>

NextTasks ==
    \/ editTask
    \/ getTaskById
    \/ deleteTask

InitTasks ==
    /\ WebhookIdle
    /\ TablesIdle
    /\ HelpersIdle
    /\ procs = [req |-> NoResponse]
    /\ client = NoCredentials
    /\ \E ids \in SUBSET TaskIds : \E rows \in [ids -> TaskRows] :
          db = [EmptyDb EXCEPT !.tasks = rows]

SpecTasks == InitTasks /\ [][NextTasks]_vars

\* ------------------------------------------------------------ properties
Last(seq) == seq[Len(seq)]
Times(seq, x) == Cardinality({i \in DOMAIN seq : seq[i] = x})
Running(h) == pc[h] \in {"findUser", "list", "loop", "update"}

\* C1: in every delivery the HTTP 200 acknowledgment is the first step: the
\* decoding, the parse, the user lookup, the provider call, the dispatch and
\* the database write all come after res.json, and as soon as a handler has
\* taken any step its response is the one 200.
AckBeforeProcessing ==
    \A h \in Handlers :
        /\ \A i \in DOMAIN log[h] :
              log[h][i] # "res.json" =>
                  \E j \in 1..(i - 1) : log[h][j] = "res.json"
        /\ log[h] # << >> => responses[h] = << 200 >>

\* C1 witness: a delivery that went through decoding, lookup, listing,
\* dispatch and the cursor write.
AckBeforeProcessingWitness ==
    \E h \in Handlers :
        /\ outcome[h] = "ok"
        /\ Times(log[h], "processMessage") >= 1
        /\ Last(log[h]) = "user.update"

\* C2: whatever happens after the acknowledgment (envelope without data,
\* unparsable payload, unknown user, provider error, database error), the
\* transport sees exactly one response, the 200, and no exception leaves
\* the handler.
OnlyTheAcknowledgment ==
    \A h \in Handlers :
        pc[h] # "idle" => responses[h] = << 200 >> /\ ~escaped[h]

\* C2 witness: a delivery that ended in the catch block after the history
\* listing threw.
OnlyTheAcknowledgmentWitness ==
    \E h \in Handlers :
        /\ pc[h] = "done"
        /\ outcome[h] = "error"
        /\ Last(log[h]) = "getNewMessages"

\* C3: a delivery to a known user stores nothing while its batch is being
\* handled, reaches the cursor write only after every message of the batch
\* has been attempted, never ends in an error raised by a message, and
\* when the write succeeds it has stored the delivered historyId, as a
\* string, exactly once.
CursorSetOncePerDelivery ==
    \A h \in Handlers :
        /\ Running(h) => writes[h] = << >>
        /\ pc[h] = "update" => idx[h] = Len(batch[h]) + 1
        /\ (pc[h] = "done" /\ outcome[h] = "error") =>
               /\ Last(log[h]) # "processMessage"
               /\ writes[h] = << >>
        /\ (pc[h] = "done" /\ outcome[h] = "ok") =>
               /\ writes[h] = << Str(env[h].historyId.v) >>
               /\ Last(log[h]) = "user.update"

\* C3 witness: a finished delivery whose batch held two messages, the last
\* of which had a failing action.
CursorSetOncePerDeliveryWitness ==
    \E h \in Handlers :
        /\ outcome[h] = "ok"
        /\ Times(log[h], "processMessage") = 2
        /\ last[h].threw # {}

\* C4: the stored cursor never moves to an older value: once a user has a
\* cursor, every step leaves it at the same or a newer history id.
CursorMonotonic ==
    [][\A u \in Users :
          cursor[u] # Null =>
              cursor'[u] # Null /\ cursor'[u].v >= cursor[u].v]_vars

\* C5: a message is not dispatched again for the checkpoint it was last
\* dispatched for: the message the loop is about to handle was not already
\* handled by a delivery that listed from the same checkpoint.
NoReprocessing ==
    \A h \in Handlers :
        pc[h] = "loop" =>
            processed[batch[h][idx[h]].id] # Num(HistoryValue(start[h]))


\* The message the loop handled last was matched by a bot with all four
\* actions enabled, and of its actions only the extraction threw.
ExtractionThrew(h) ==
    /\ last[h].matched
    /\ last[h].flags = BotFlags
    /\ last[h].threw = {"extract"}

\* C6: when the extraction of a message matched by a bot with all four
\* actions enabled throws (and no other action does), the summary row has
\* been created and the reply sent for that message, no task or meeting row
\* has, the handler has not ended in its catch block because of the
\* message, and a delivery that finishes has stored the delivered historyId.
ActionIsolation ==
    \A h \in Handlers :
        ExtractionThrew(h) =>
            /\ last[h].summary /\ last[h].reply
            /\ ~last[h].task /\ ~last[h].meeting
            /\ made[h].aiSummarys >= 1 /\ made[h].sent >= 1
            /\ (pc[h] = "done" /\ outcome[h] = "error") =>
                   Last(log[h]) = "user.update"
            /\ (pc[h] = "done" /\ outcome[h] = "ok") =>
                   writes[h] = << Str(env[h].historyId.v) >>

\* C6 witness: a finished delivery whose last message had its extraction
\* throw under a bot with all four actions enabled.
ActionIsolationWitness ==
    \E h \in Handlers :
        /\ pc[h] = "done"
        /\ outcome[h] = "ok"
        /\ ExtractionThrew(h)

\* The delivery of the scenario: no cursor stored before it, one new message,
\* matched by an active bot with autoSummarize only, none of whose actions
\* failed, and the handler finished.
SummarizeOnlyDelivery(h) ==
    /\ pc[h] = "done"
    /\ outcome[h] = "ok"
    /\ start[h].t = "number"
    /\ Times(log[h], "processMessage") = 1
    /\ last[h].matched
    /\ last[h].flags = {"isautoSummarize"}
    /\ last[h].threw = {}

\* C7: for a message matched by an active bot, an action that did not fail
\* has its effect exactly when its flag is on (a summary row iff
\* isautoSummarize, a reply iff isAutoReply, a task row only with
\* isautoExtractTaskes, a meeting row only with isautoExtractMettengs, and
\* both when the completion names tasks and a meeting); and the scenario's
\* delivery leaves exactly one summary row, no task row, no meeting row, no
\* reply, and the delivered historyId as the stored cursor.
EffectsIffEnabled ==
    \A h \in Handlers :
        /\ (last[h].matched /\ last[h].threw = {}) =>
               /\ last[h].summary <=> "isautoSummarize" \in last[h].flags
               /\ last[h].reply <=> "isAutoReply" \in last[h].flags
               /\ last[h].task => "isautoExtractTaskes" \in last[h].flags
               /\ last[h].meeting => "isautoExtractMettengs" \in last[h].flags
        /\ last[h].matched =>
               /\ last[h].summary => "isautoSummarize" \in last[h].flags
               /\ last[h].reply => "isAutoReply" \in last[h].flags
        /\ SummarizeOnlyDelivery(h) =>
               /\ made[h] = [aiSummarys |-> 1, tasks |-> 0,
                             calendarTasks |-> 0, sent |-> 0]
               /\ writes[h] = << Str(env[h].historyId.v) >>

\* C7 witness: the scenario's delivery has finished.
EffectsIffEnabledWitness ==
    \E h \in Handlers : SummarizeOnlyDelivery(h)

\* No active bot of user u lists the address.
NoActiveBotFor(u, addr) ==
    \A i \in DOMAIN bots[u] : ~(bots[u][i].isactive /\ addr \in bots[u][i].emails)

\* C8: a message whose sender no active bot of the user lists (no bot lists
\* it, or the bot that does is inactive) gets no action: no summary, task
\* or meeting row and no reply; a user with no active bot gets no row and
\* no reply from the whole delivery; and the delivery, when it finishes,
\* has stored the delivered historyId.
NoBotNoAction ==
    \A h \in Handlers :
        (last[h].gmailId # 0 /\ NoActiveBotFor(user[h], mailbox[last[h].gmailId].addr)) =>
            /\ ~last[h].matched
            /\ ~last[h].summary /\ ~last[h].task
            /\ ~last[h].meeting /\ ~last[h].reply
            /\ (\A i \in DOMAIN bots[user[h]] : ~bots[user[h]][i].isactive) =>
                   made[h] = NoRows
            /\ (pc[h] = "done" /\ outcome[h] = "ok") =>
                   writes[h] = << Str(env[h].historyId.v) >>

\* C8 witness: a finished delivery that handled a message from the sender
\* the user's only bot lists, that bot being inactive.
NoBotNoActionWitness ==
    \E h \in Handlers :
        /\ pc[h] = "done"
        /\ outcome[h] = "ok"
        /\ last[h].gmailId # 0
        /\ mailbox[last[h].gmailId].addr = "boss@x.com"
        /\ Len(bots[user[h]]) = 1
        /\ ~bots[user[h]][1].isactive

\* The envelope of h's delivery names an address no user has.
UnknownAddress(h) ==
    /\ env[h].kind = "valid"
    /\ env[h].emailAddress \notin Users

\* What a delivery for an unknown address has done so far: after the
\* acknowledgment and the decoding, the user lookup and nothing else.
UnknownUserNoEffect ==
    \A h \in Handlers :
        UnknownAddress(h) =>
            /\ pc[h] \in {"findUser", "done"}
            /\ outcome[h] \in {"running", "no_user", "error"}
            /\ Times(log[h], "getNewMessages") = 0
            /\ Times(log[h], "processMessage") = 0
            /\ Times(log[h], "user.update") = 0
            /\ writes[h] = << >>
            /\ made[h] = NoRows
            /\ user[h] = NoUser
            /\ outcome[h] = "no_user" =>
                   log[h] = << "res.json", "Buffer.from", "JSON.parse",
                               "user.findUnique" >>

\* The step that ends a delivery for an unknown address leaves every stored
\* cursor, every bot and every dispatch record as they were.
UnknownUserFrame ==
    \A h \in Handlers :
        (UnknownAddress(h) /\ pc[h] = "findUser" /\ pc'[h] = "done") =>
            /\ cursor' = cursor
            /\ bots' = bots
            /\ processed' = processed

\* C9: a delivery whose emailAddress matches no user aborts silently: it
\* makes no provider call, dispatches nothing, writes no cursor and no row,
\* and its last step changes no stored cursor nor any other record.
UnknownUserAborts ==
    /\ []UnknownUserNoEffect
    /\ [][UnknownUserFrame]_vars

\* C9 witness: a delivery for an unknown address has ended at the lookup,
\* while the user of the system has a cursor stored.
UnknownUserAbortsWitness ==
    \E h \in Handlers :
        /\ UnknownAddress(h)
        /\ outcome[h] = "no_user"
        /\ \E u \in Users : cursor[u] # Null

\* C10: when the lookup of a delivery resolves a user, the listing starts
\* from that user's stored cursor if there is one, and from the delivered
\* historyId otherwise.
ListsFromStoredCursor ==
    [][\A h \in Handlers :
          (pc[h] = "findUser" /\ pc'[h] = "list") =>
              start'[h] = IF cursor[user'[h]] # Null
                          THEN cursor[user'[h]]
                          ELSE env[h].historyId]_vars

\* C10 witness: a handler about to list from a stored cursor that differs
\* from the historyId of its delivery.
ListsFromStoredCursorWitness ==
    \E h \in Handlers :
        /\ pc[h] = "list"
        /\ start[h].t = "string"
        /\ start[h].v # env[h].historyId.v

\* ------------------------------------------- properties: notifications
\* The rows the table holds for a task.
RowsFor(type, taskId) ==
    {i \in DOMAIN notifications :
        notifications[i].type = type /\ notifications[i].taskId = taskId}

\* The candidates of the job that are selected and due within the hour
\* after the clock of the latest run.
DueNow ==
    LET items == Candidates(calendarTasks, tasks)
    IN {it \in {items[i] : i \in DOMAIN items} :
           /\ it.found
           /\ it.due - currentDate > 0
           /\ it.due - currentDate <= oneHour}

\* C11: no (taskId, type) pair ever has two notification rows, and when a
\* run of the job has gone through, every due task (pending calendar task or
\* not-done task due within the hour) has exactly one, whether or not an
\* earlier notification for it has been read or deleted since.
MaterializedOnce ==
    /\ \A i, j \in DOMAIN notifications :
          (/\ notifications[i].type = notifications[j].type
           /\ notifications[i].taskId = notifications[j].taskId) => i = j
    /\ answer.op = "startNotificationJob" =>
          \A it \in DueNow : Cardinality(RowsFor(it.type, it.taskId)) = 1

\* C11 witness: a run of the job has gone through and created nothing, two
\* tasks being due whose notifications exist already, one read and one
\* deleted.
MaterializedOnceWitness ==
    /\ answer.op = "startNotificationJob"
    /\ answer.count = 0
    /\ Cardinality(DueNow) = 2
    /\ \E i \in DOMAIN notifications : notifications[i].isDeleted
    /\ \E i \in DOMAIN notifications : notifications[i].isRead

\* A step's new notification rows.
NewRows == (DOMAIN notifications') \ (DOMAIN notifications)

\* C20: every notification a run of the job creates is for a pending
\* calendar task (or a not-done task) whose due date lies after the run's
\* clock and at most one hour after it: a task past due, due right now or
\* due more than an hour away gets none from that run.
NotifiedOnlyWithinTheHour ==
    [][\A i \in NewRows :
          LET row == notifications'[i]
              due == IF row.type = "calendarTask"
                     THEN calendarTasks[row.taskId].dueDate
                     ELSE tasks[row.taskId].taskDate.v
          IN /\ row.type = "calendarTask" =>
                    calendarTasks[row.taskId].status = "pending"
             /\ row.type = "task" =>
                    /\ ~tasks[row.taskId].isDoneTask
                    /\ tasks[row.taskId].taskDate # Null
             /\ due - currentDate' > 0
             /\ due - currentDate' <= 60 * 60 * 1000]_vars

\* C20 witness: a run has created the notification of a calendar task due
\* exactly one hour after the run's clock.
NotifiedOnlyWithinTheHourWitness ==
    /\ answer.op = "startNotificationJob"
    /\ answer.count >= 1
    /\ \E i \in DOMAIN notifications :
          /\ notifications[i].type = "calendarTask"
          /\ calendarTasks[notifications[i].taskId].dueDate - currentDate = oneHour

\* No row is ever removed, and a deleted row is never changed again.
DeletedRowsStay ==
    \A i \in DOMAIN notifications :
        /\ i \in DOMAIN notifications'
        /\ notifications[i].isDeleted => notifications'[i] = notifications[i]

\* A delete answered 200 has set isDeleted on the row it names and removed
\* nothing.
DeleteMarksRow ==
    (answer'.op = "deleteNotification" /\ answer'.status = 200) =>
        /\ Len(notifications') = Len(notifications)
        /\ answer'.id \in DOMAIN notifications'
        /\ notifications'[answer'.id].isDeleted

\* The list endpoint returns no deleted row.
ListHidesDeleted ==
    answer'.op = "getNotifications" =>
        \A k \in DOMAIN answer'.data : ~notifications'[answer'.data[k]].isDeleted

\* A delete by its owner of a row already deleted is answered 400 (unless
\* the query itself rejects) and changes nothing.
SecondDeleteRefused ==
    (/\ answer'.op = "deleteNotification"
     /\ answer'.id \in DOMAIN notifications
     /\ notifications[answer'.id].isDeleted
     /\ notifications[answer'.id].userId = answer'.user
     /\ answer'.status # 500) =>
        /\ answer'.status = 400
        /\ notifications' = notifications

\* C19: a successful delete leaves the row in the table with isDeleted =
\* true; from then on no operation changes or removes the row (mark-read,
\* mark-all-read and the deletes included), the list endpoint never returns
\* it, and a second delete of it is answered 400 and changes nothing.
SoftDelete ==
    [][DeletedRowsStay /\ DeleteMarksRow /\ ListHidesDeleted
       /\ SecondDeleteRefused]_vars

\* C19 witness: a deleted notification whose owner has just asked to delete
\* it again and got 400.
SoftDeleteWitness ==
    /\ answer.op = "deleteNotification"
    /\ answer.status = 400
    /\ answer.id \in DOMAIN notifications
    /\ notifications[answer.id].isDeleted

\* ------------------------------------------- properties: calendar tasks
\* The request got past the validation and the calendar was called.
CalendarCalled ==
    /\ answer.op \in {"addTask", "addTask.catch"}
    /\ call.fn = "createCalendarEvent"

\* C12: when the creation of the calendar event fails, addTask still stores the
\* calendar task, with a null googleEventId, and answers 200 (the request fails
\* only when the database itself rejects the row); and a stored row has a
\* googleEventId only when the calendar created the event, whose id it is.
CalendarFailureNotFatal ==
    /\ (CalendarCalled /\ ret = << Thrown >> /\ answer.op = "addTask") =>
          /\ answer.status = 200
          /\ answer.id = Len(calendarTasks)
          /\ calendarTasks[answer.id].googleEventId = Null
          /\ calendarTasks[answer.id].userId = answer.user
    /\ (CalendarCalled /\ answer.op = "addTask.catch") => answer.status = 500
    /\ (CalendarCalled /\ answer.status = 200) =>
          /\ answer.id = Len(calendarTasks)
          /\ (calendarTasks[answer.id].googleEventId # Null =>
                 /\ ret # << Thrown >>
                 /\ ret = << calendarTasks[answer.id].googleEventId >>)

CalendarFailureNotFatalWitness ==
    /\ CalendarCalled
    /\ ret = << Thrown >>
    /\ answer.status = 200
    /\ Len(calendarTasks) = 2
    /\ calendarTasks[1].googleEventId # Null
    /\ calendarTasks[2].googleEventId = Null

\* ------------------------------------------- properties: ownership
\* A request answered with rows was answered with the caller's rows only.
ReturnsOwnRows ==
    answer.op \in {"createTemplate", "getTemplatesByUser", "getTemplateById",
                   "updateTemplateById"} =>
        \A i \in DOMAIN answer.data : answer.data[i].createdBy = answer.user

\* A step changes or removes only rows of the user it answers.
TouchesOwnRows ==
    \A row \in templets : row \notin templets' => row.createdBy = answer'.user

\* C13: an operation authenticated as one user never returns, modifies or
\* deletes a template that another user created.
NoCrossUserVisibility == []ReturnsOwnRows /\ [][TouchesOwnRows]_vars

\* ------------------------------------------- properties: parsing completions
\* The completion is valid JSON: an object.
ValidJson(text) == ~JSONparse(text).threw /\ JSONparse(text).t = "object"

Fenced(text) == << "fence", "json", "n" >> \o text \o << "n", "fence" >>

\* C14: whatever the completion is, the parse step of a caller returns a value
\* (the parsed object, or a default or empty result) and throws nothing; and a
\* code-fenced valid JSON object parses to the object the bare JSON parses to.
ParseNeverThrows ==
    /\ call.fn \in ParseSteps => \A i \in DOMAIN ret : ~ret[i].threw
    /\ (call.fn \in ParseSteps /\ ValidJson(call.arg)) =>
          /\ ret = << JSONparse(call.arg) >>
          /\ safeParseAgentJson(Fenced(call.arg)) = JSONparse(call.arg)

\* ------------------------------------------- properties: bodies
\* The parts of a payload in the order a depth-first traversal meets them.
RECURSIVE DepthFirst(_), DepthFirstAll(_)
DepthFirst(part) == << part >> \o DepthFirstAll(part.parts)
DepthFirstAll(parts) ==
    IF parts = << >> THEN << >>
    ELSE DepthFirst(Head(parts)) \o DepthFirstAll(Tail(parts))

\* The decoded bodies of the parts of a sequence, one after the other.
RECURSIVE Concatenated(_)
Concatenated(parts) ==
    IF parts = << >> THEN << >>
    ELSE decodeBase64Url(Head(parts).data) \o Concatenated(Tail(parts))

IsText(part) ==
    \/ part.mimeType = "text/plain"
    \/ part.mimeType = "" /\ part.parts = << >>
IsHtml(part) == part.mimeType = "text/html"

\* C15: extractBodies returns as text the decoded bodies, in depth-first
\* order, of the parts that are text/plain (and of the parts without children
\* and without mime type), as html those of the parts that are text/html, and
\* null, not the empty string, for a body no part carries.
BodiesAccumulated ==
    call.fn = "extractBodies" =>
        LET visited == DepthFirst(call.arg[1])
            text == Concatenated(SelectSeq(visited, IsText))
            html == Concatenated(SelectSeq(visited, IsHtml))
        IN /\ ret[1].text = (IF text = << >> THEN NoBody
                             ELSE [t |-> "string", v |-> text])
           /\ ret[1].html = (IF html = << >> THEN NoBody
                             ELSE [t |-> "string", v |-> html])
           /\ ret[1].text # [t |-> "string", v |-> << >>]
           /\ ret[1].html # [t |-> "string", v |-> << >>]

\* A multipart/alternative payload with a text/plain and a text/html leaf.
BodiesAccumulatedWitness ==
    /\ call.fn = "extractBodies"
    /\ call.arg[1] =
          Part("multipart/alternative", << >>,
               << Part("text/plain", << "Pz8_" >>, << >>),
                  Part("text/html", << "Pj4-", "SGk=" >>, << >>) >>)
    /\ ret[1].text = [t |-> "string", v |-> << "???" >>]
    /\ ret[1].html = [t |-> "string", v |-> << ">>>", "Hi" >>]

\* ------------------------------------------- properties: meeting times
\* The tenths of a minute a duration stands for: its number, times 60 for hours.
DurationTenths(duration) ==
    IF duration = NoDuration \/ durationMatch(duration) = "" THEN 600
    ELSE IF durationMatch(duration) \in {"hour", "hr"} THEN duration.v * 60
    ELSE duration.v

\* C16: a meeting with a date and no time starts on that date at 09:00 of the
\* server's clock, and ends the duration after its start: the parsed number of
\* minutes (times 60 for hours), 60 minutes without a recognized duration.
MeetingTimeResolved ==
    (call.fn = "createMeetingEvent" /\ call.arg[1] # Null) =>
        /\ ~ret[1].threw
        /\ call.arg[2] = Null =>
              ret[1].start + ret[1].tz = call.arg[1].v * MinutesOfDay + NineOClock
        /\ (ret[1].end - ret[1].start) * 10 = DurationTenths(call.arg[3])

\* ------------------------------------------- properties: the reply's thread
\* The Message-ID of a message and its References, read as a mail agent reads
\* them: whatever the case of the field's name.
FieldOf(headers, names) ==
    IF \E i \in DOMAIN headers : headers[i].name \in names
    THEN headers[CHOOSE i \in DOMAIN headers : headers[i].name \in names].value
    ELSE << >>

\* C17: the reply that is sent carries the thread of the original; and when
\* the original has a Message-ID, In-Reply-To is that id and References are
\* the original's References followed by that id.
ReplyContinuesThread ==
    (call.fn = "sendAutoReply" /\ ~ret[1].threw) =>
        LET original == call.arg[1]
            messageId == FieldOf(original.headers, MessageIdNames)
            references == FieldOf(original.headers, {"References"})
            sent == ret[1].sent
        IN /\ sent.threadId = original.threadId
           /\ messageId # << >> =>
                 /\ FieldOf(sent.headers, {"In-Reply-To"}) = messageId
                 /\ FieldOf(sent.headers, {"References"}) = references \o messageId

\* ------------------------------------------- properties: retries
\* C18, as claimed: every external call is attempted at most once.
AttemptedOnce == Len(ret) <= 1

\* C18, amended: the insertion of a calendar event and the send are attempted
\* at most once.  A text completion is retried: it is attempted again after a
\* 500, a 503 or a network error while retries are left, and only then; so at
\* most 1 + 3 times, and never after a quota error or another error.  An
\* attempt that is not made again returns or throws to the action.
RetriedCompletionOnly ==
    call.fn \in ExternalCalls =>
        /\ call.fn # "generateContent" => Len(ret) <= 1
        /\ Len(ret) <= 1 + DefaultRetries
        /\ call.arg[1] = DefaultRetries - Cardinality({i \in DOMAIN ret : ret[i].then = "retry"})
        /\ \A i \in DOMAIN ret :
              /\ ret[i].then = "retry" <=>
                    /\ call.fn = "generateContent"
                    /\ ret[i].error \in {"500", "503", "fetch failed"}
                    /\ i <= DefaultRetries
              /\ i < Len(ret) => ret[i].then = "retry"
              /\ ret[i].then = "return" <=> ret[i].error = "none"
              /\ ret[i].then = "throw QUOTA_EXHAUSTED" =>
                    ret[i].error = "429" /\ call.fn = "generateContent"

\* The completion failed four times and the last failure was thrown.
RetriedCompletionOnlyWitness ==
    /\ call.fn = "generateContent"
    /\ Len(ret) = 1 + DefaultRetries
    /\ ret[1].error = "503"
    /\ ret[Len(ret)].error = "500"
    /\ ret[Len(ret)].then = "throw"

\* ------------------------------------------- properties: notification priority
\* The priority the job's documentation gives a notification: high for a task
\* of high priority, low for a task of medium or low priority.
MappedPriority(priority) == IF priority = "high" THEN "high" ELSE "low"

\* C21: a notification the job created for a calendar task has the priority
\* mapped from the task's: high for high, low for medium or low.
PriorityMapped ==
    \A i \in DOMAIN notifications :
        notifications[i].type = "calendarTask" =>
            notifications[i].priority =
                MappedPriority(calendarTasks[notifications[i].taskId].priority)

\* A table after the bot `id` was deleted: every row still there, a row that
\* referenced the bot changed in its botId only, which is null.
Uncascaded(before, after, id) ==
    /\ DOMAIN after = DOMAIN before
    /\ \A i \in DOMAIN before :
          after[i] = IF before[i].botId = id
                     THEN [before[i] EXCEPT !.botId = NullId]
                     ELSE before[i]

\* C22: when deleteBot succeeds, every task and calendar task that referenced
\* the bot still exists with its other fields unchanged, and its botId is null.
DeleteDoesNotCascade ==
    [][(procs'.req.op = "deleteBot" /\ procs'.req.status = 200 /\ db'.bots # db.bots)
          => /\ Uncascaded(db.tasks, db'.tasks, procs'.req.id)
             /\ Uncascaded(db.calendarTasks, db'.calendarTasks, procs'.req.id)]_vars

\* A bot referenced by a task and by a calendar task was deleted, and the
\* rows are there with a null botId.
DeleteDoesNotCascadeWitness ==
    /\ procs.req.status = 200
    /\ procs.req.id = "b1"
    /\ BotRow("b1", "u1") \notin db.bots
    /\ Len(db.tasks) = MaxBotTasks
    /\ db.tasks[1] = BotTask("u1", NullId) @@ [isCreatedByBot |-> TRUE]
    /\ db.calendarTasks[1].isCreatedByBot /\ db.calendarTasks[1].botId = NullId

\* C23: overlapping deliveries take no lock on the cursor: whatever the other
\* delivery is doing, a delivery lists from the cursor stored when its lookup
\* resolves and overwrites the cursor with its own historyId; so both may
\* list from the same cursor and dispatch the same message, and the delivery
\* with the older historyId may write last.
OverlapTakesNoLock ==
    [][\A h \in Overlapping :
          /\ (pc[h] = "findUser" /\ pc'[h] = "list") =>
                start'[h] = lastHistoryId(cursor[user'[h]], env[h].historyId)
          /\ writes'[h] # writes[h] =>
                /\ cursor'[user[h]] = String(env[h].historyId)
                /\ \A g \in Overlapping \ {h} : pc'[g] = pc[g]]_vars

\* Both deliveries listed from the stored cursor "0" and dispatched message
\* 2; the delivery with historyId 2 stored "2", then the one with historyId 1
\* stored "1", which is the final cursor.
OverlapTakesNoLockWitness ==
    /\ start["h1"] = Str(0) /\ start["h2"] = Str(0)
    /\ last["h1"].gmailId = 2 /\ last["h2"].gmailId = 2
    /\ last["h1"].task /\ last["h2"].task
    /\ env["h1"].historyId = Num(1) /\ env["h2"].historyId = Num(2)
    /\ writes["h1"] = << Str(1) >> /\ writes["h2"] = << Str(2) >>
    /\ cursor["a@x.com"] = Str(1)

\* C24: also when two runs of the job overlap, no (taskId, type) pair has two
\* notification rows.
OnePerTaskWhenOverlapping ==
    \A i, j \in DOMAIN notifications :
        (/\ notifications[i].type = notifications[j].type
         /\ notifications[i].taskId = notifications[j].taskId) => i = j

\* C29: whatever the interleaving of two callbacks, a user row pairs an email
\* with the tokens of the same account, a userinfo request carries the
\* credentials of its own callback, and the JWT is signed for the account
\* the caller's code was issued for.
CallbacksKeepAccounts ==
    /\ \A row \in db.users : row.tokens = row.email
    /\ \A p \in Sessions :
          /\ procs[p].pc \in {"userinfo", "upsert"} => procs[p].auth = procs[p].code
          /\ procs[p].pc = "upsert" => procs[p].email = procs[p].code
          /\ procs[p].jwt # NoParam => procs[p].jwt = procs[p].code

\* Both callbacks are in flight: the shared client holds the credentials of
\* u2, set while the callback of u1 awaited, and the callback of u1 has got
\* its userinfo and awaits its upsert.
CallbacksKeepAccountsWitness ==
    /\ procs["c1"].pc = "upsert"
    /\ procs["c1"].code = "u1"
    /\ procs["c1"].email = "u1"
    /\ procs["c2"].pc = "userinfo"
    /\ procs["c2"].auth = "u2"
    /\ client = "u2"

\* C28: every provider call made while serving a user's request carries
\* that user's credentials, whatever the other request does meanwhile.
CallsCarryOwnCredentials ==
    \A p \in Requests :
        \A k \in DOMAIN procs[p].calls : procs[p].calls[k].auth = procs[p].user

\* A step in which the handler h stores the cursor value `id` for the user u,
\* its loop over the batch being over.
IngestionWrites(h, u, id) ==
    /\ pc[h] = "update"
    /\ user[h] = u
    /\ idx[h] > Len(batch[h])
    /\ writes'[h] = Append(writes[h], id)

\* C25 as stated: the stored cursor changes only in the ingestion handler's
\* write after its batch.
CursorWrittenByIngestionOnly ==
    [][\A u \in Users :
          cursor'[u] # cursor[u] =>
              \E h \in Handlers : IngestionWrites(h, u, cursor'[u])]_vars

\* C25, amended: the stored cursor changes only in the ingestion handler's
\* write after its batch and in watch setup, which stores the historyId that
\* users.watch answers; the login, watch stop, the bots endpoint and the
\* notification job leave it as it is.
CursorWrittenByIngestionOrWatch ==
    [][\A u \in Users :
          cursor'[u] # cursor[u] =>
              \/ \E h \in Handlers : IngestionWrites(h, u, cursor'[u])
              \/ /\ cursor'[u] = String(Num(Len(mailbox)))
                 /\ UNCHANGED << mailbox, handlerVars, tableVars, helperVars,
                                 requestVars >>]_vars

\* A delivery has stored the cursor after its batch; a login has upserted its
\* user, the watch was stopped, the job has run and a bots request was
\* answered, and the cursor is the delivery's.
CursorWrittenByIngestionOrWatchWitness ==
    /\ writes["h1"] = << Str(1) >>
    /\ cursor["a@x.com"] = Str(1)
    /\ made["h1"].tasks = 1
    /\ procs.c1.jwt = "u1"
    /\ call.fn = "stopGmailWatch"
    /\ answer.op = "startNotificationJob"
    /\ procs.req.status = 404

\* The ids of the messages of a batch.
BatchIds(messages) == {messages[k].id : k \in DOMAIN messages}

OneSummaryPerMessage ==
    \A i, j \in DOMAIN db.aiSummarys :
        (/\ db.aiSummarys[i].userId = db.aiSummarys[j].userId
         /\ db.aiSummarys[i].gmailId = db.aiSummarys[j].gmailId
         /\ db.aiSummarys[i].gmailId # NullId) => i = j

\* The second half of C27 alone: a row that exists is never changed or
\* removed.
SummariesNeverModified ==
    [][\A i \in DOMAIN db.aiSummarys :
          i \in DOMAIN db'.aiSummarys /\ db'.aiSummarys[i] = db.aiSummarys[i]]_vars

\* C30: a task request of an authenticated caller whose lookup went through
\* is answered 404 when no row has the id and 403 when the row is another
\* user's, and in both cases the tasks table is what it was.
TaskOwnership ==
    [][LET r == procs'.req
       IN (/\ r.op \in {"editTask", "getTaskById", "deleteTask"}
           /\ r.user # NoAuth
           /\ r.id # NoParam
           /\ r.status # 500) =>
              /\ r.id \notin DOMAIN db.tasks => r.status = 404 /\ db' = db
              /\ (r.id \in DOMAIN db.tasks /\ db.tasks[r.id].userId # r.user) =>
                    r.status = 403 /\ db' = db]_vars

\* u2 asked to delete the task of u1 and was answered 403; the task is there.
TaskOwnershipWitness ==
    /\ procs.req = Response("deleteTask", "u2", 403, "t1")
    /\ "t1" \in DOMAIN db.tasks
    /\ db.tasks["t1"].userId = "u1"
    /\ "t2" \notin DOMAIN db.tasks

=============================================================================
